---- MODULE Spec2Model ----
(***************************************************************************)
(* A model of the KWSys process-pipeline engine (GCC_XML/KWSys/            *)
(* ProcessUNIX.c): one kwsysProcess control structure `cp`, the parent's   *)
(* descriptor table, the children it forked, the pipes between them, the   *)
(* process-wide SIGCHLD disposition and the wall clock.                    *)
(*                                                                         *)
(* The caller is single threaded.  kwsysProcess_Execute, _Kill and the     *)
(* configuration calls run to completion in one step.  A wait call runs    *)
(* until it returns or blocks: `pc` is "select" while it sleeps in         *)
(* select() and "waitpid" while it sleeps in waitpid(); the children, the  *)
(* clock and the host take their steps in between.                         *)
(*                                                                         *)
(* A double is modelled as a whole number of microseconds, a struct        *)
(* timeval as a record [tv_sec, tv_usec].                                  *)
(***************************************************************************)
EXTENDS Integers, Sequences, FiniteSets, TLC

(* ------------------------------ bounds -------------------------------- *)
\* Longest command list the caller installs.
MaxCommands == 2
\* Number of process ids the system hands out; fork fails (EAGAIN) after that.
MaxPid == 2
\* The clock stops after this many half-second ticks.
MaxClock == 3
\* Highest descriptor number of the parent; pipe fails (EMFILE) when full.
MaxFd == 11
\* How often the select of one call is interrupted by a signal.
MaxInterrupts == 1

(* ------------------------- program constants -------------------------- *)
KWSYSPE_PIPE_COUNT == 3
KWSYSPE_PIPE_STDOUT == 0
KWSYSPE_PIPE_STDERR == 1
KWSYSPE_PIPE_TERM == 2
KWSYSPE_PIPE_BUFFER_SIZE == 1024
kwsysProcess_Pipe_Timeout == 255

SIGINT == 2
SIGILL == 4
SIGBUS == 7
SIGFPE == 8
SIGKILL == 9
SIGSEGV == 11
SIGTERM == 15

\* A heap array: NULL, or an allocation holding the sequence v.
NULL == [alloc |-> FALSE, v |-> <<>>]
Array(s) == [alloc |-> TRUE, v |-> s]
\* n zeroed elements (memset after malloc).
Zeroed(n) == Array([i \in 1 .. n |-> 0])

\* The element of a singleton.  An operator's result is computed once, and its
\* argument bound to a value, by writing Once({F(x) : x \in {e}}).
Once(S) == CHOOSE x \in S : TRUE

Pipes == 0 .. (KWSYSPE_PIPE_COUNT - 1)
Pids == 1 .. MaxPid
Fds == 0 .. MaxFd

Min(S) == CHOOSE x \in S : \A y \in S : x <= y

(* ------------------------------- time --------------------------------- *)
Time(s, u) == [tv_sec |-> s, tv_usec |-> u]

\* C truncation of a quotient toward zero.
Trunc(a, b) == IF a >= 0 THEN a \div b ELSE -((-a) \div b)

kwsysProcessTimeToDouble(t) == t.tv_sec * 1000000 + t.tv_usec

kwsysProcessTimeFromDouble(d) ==
  LET sec == Trunc(d, 1000000)
  IN  Time(sec, d - sec * 1000000)

kwsysProcessTimeLess(in1, in2) ==
  \/ in1.tv_sec < in2.tv_sec
  \/ in1.tv_sec = in2.tv_sec /\ in1.tv_usec < in2.tv_usec

kwsysProcessTimeAdd(in1, in2) ==
  LET sec  == in1.tv_sec + in2.tv_sec
      usec == in1.tv_usec + in2.tv_usec
  IN  IF usec > 1000000 THEN Time(sec + 1, usec - 1000000) ELSE Time(sec, usec)

kwsysProcessTimeSubtract(in1, in2) ==
  LET sec  == in1.tv_sec - in2.tv_sec
      usec == in1.tv_usec - in2.tv_usec
  IN  IF usec < 0 THEN Time(sec - 1, usec + 1000000) ELSE Time(sec, usec)

\* One step of the clock: half a second.
HalfSecond == Time(0, 500000)

\* The durations the caller passes (doubles, in microseconds).
TimeoutArgs == {-1000000, 0, 1000000}
UserTimeoutArgs == {500000}

(* --------------------------- wait statuses ---------------------------- *)
ExitStatus(code) == code * 256
SignalStatus(sig) == sig
\* A status that is neither "exited" nor "signaled" (low seven bits 0x7f).
StoppedStatus == 127 + 256 * SIGTERM

WIFEXITED(status) == status % 128 = 0
WEXITSTATUS(status) == (status \div 256) % 256
WIFSIGNALED(status) == (status % 128) # 0 /\ (status % 128) # 127
WTERMSIG(status) == status % 128

\* What waitpid can report for a terminated child.
ChildStatuses ==
  {ExitStatus(c) : c \in {0, 255}} \cup
  {SignalStatus(s) : s \in {SIGINT, SIGILL, SIGBUS, SIGFPE, SIGKILL, SIGSEGV, SIGTERM}}
\* What the commands before the last one report.
EarlyStatuses == {ExitStatus(0), SignalStatus(SIGSEGV)}
\* What an int read outside any array can hold.
AnyStatuses == ChildStatuses \cup {StoppedStatus}

(* ---------------------------- descriptors ----------------------------- *)
\* What a descriptor of the parent refers to: <<kind, stage>>.
Closed == <<"closed", 0>>
Tty == <<"tty", 0>>
Stale == <<"stale", 0>>
End(kind, k) == <<kind, k>>

FreeFds(fd) == {n \in Fds : fd[n] = Closed}
CanPipe(fd) == Cardinality(FreeFds(fd)) >= 2
\* pipe(): the two lowest free descriptors, read end first.
PipeFds(fd) ==
  LET p0 == Min(FreeFds(fd))
      p1 == Min(FreeFds(fd) \ {p0})
  IN  <<p0, p1>>

\* close(n) in the parent: an unused number is EBADF and changes nothing.
CloseFd(fd, n) == IF n \in Fds THEN [fd EXCEPT ![n] = Closed] ELSE fd

(* ------------------------------ state --------------------------------- *)
VARIABLES
  cp,       \* the kwsysProcess control structure
  fdtab,    \* the parent's descriptor table: descriptor -> what it refers to
  proc,     \* pid -> "none", "running", "quiet" (running, its stdout and stderr
            \*        closed), "dying" and "fading" (a running and a quiet child
            \*        with SIGKILL on its way), "zombie", "reaped"
  nextPid,  \* the pid the next fork returns
  run,      \* pids forked by the latest Execute, by stage
  pend,     \* unread bytes in the stdout, stderr and termination pipe
  sigchld,  \* the process-wide SIGCHLD disposition
  now,      \* the wall clock
  pc,       \* where the caller is: "idle", "select" or "waitpid"
  loc,      \* the locals of the wait call in progress
  ret,      \* the public call that has just returned, and what it returned
  hist      \* what happened during the call and the run in progress

vars == <<cp, fdtab, proc, nextPid, run, pend, sigchld, now, pc, loc, ret, hist>>

\* The argument vectors the caller installs; NullArgv is a null pointer.
Argvs == {<<"cc1plus", "-quiet">>}
NullArgv == <<>>

Alive == {"running", "quiet", "dying", "fading"}
\* The children that still hold the standard output and error they were given.
Holders == {"running", "dying"}
NoPend == [p \in Pipes |-> 0]
NoTime == Time(-1, -1)

\* The locals of a wait call while no wait call is in progress.
NoLoc ==
  [op |-> "none", mask |-> 0, hasUT |-> FALSE, ut |-> 0,
   userStartTime |-> Time(0, 0), timeoutTime |-> Time(0, 0), user |-> 0, i |-> 0]

\* kwsysProcess_New: malloc and memset(cp, 0), then State = Starting.
kwsysProcess_New ==
  [Commands |-> <<>>, NumberOfCommands |-> 0,
   PipeReadEnds |-> [i \in Pipes |-> 0],
   ForkPIDs |-> NULL, SelectError |-> 0, Timeout |-> 0,
   StartTime |-> Time(0, 0), TimeoutTime |-> Time(0, 0), TimeoutExpired |-> 0,
   OldSigChldAction |-> "SIG_DFL", PipesLeft |-> 0, PipeSet |-> {},
   State |-> "Starting", ExitException |-> "None", ExitCode |-> 0, ExitValue |-> 0,
   Killed |-> 0, ErrorMessage |-> "", CommandExitCodes |-> NULL]

\* What a call remembers of the state it started from.
Snapshot(c) ==
  [State |-> c.State, Killed |-> c.Killed, TimeoutExpired |-> c.TimeoutExpired,
   SelectError |-> c.SelectError]

\* hist describes the call in progress or just returned: what it started
\* from (pre), the pids it signalled (sigs), the step of Execute that failed
\* (fail), the pids waitpid was called on (waited), whether a waitpid failed
\* (waitFail), the locals expired and user of WaitForData and how often a
\* select of the call was interrupted by a signal (interrupted).  It also
\* describes the run in progress: whether Kill was called, whether the
\* process timeout expired after the last Kill, and the SIGCHLD disposition
\* that was in force when Execute was called (sigBefore).
NoHist ==
  [pre |-> Snapshot(kwsysProcess_New), sigs |-> {}, fail |-> "none", waited |-> {},
   waitFail |-> FALSE, expired |-> 0, user |-> 0, interrupted |-> 0,
   killCalled |-> FALSE, expiredSinceKill |-> FALSE, sigBefore |-> "none"]

\* The part of hist that describes the run.
RunHist(h) ==
  [NoHist EXCEPT !.killCalled = h.killCalled,
                 !.expiredSinceKill = h.expiredSinceKill,
                 !.sigBefore = h.sigBefore]

\* hist at the start of a call on c.
CallHist(c) == [RunHist(hist) EXCEPT !.pre = Snapshot(c)]

\* ret while no call has just returned.  Of a WaitForData that has returned,
\* ret keeps the mask it was called with, what it left in *userTimeout and the
\* length it reported.
NoRet == [op |-> "none", val |-> 0, ut |-> 0, len |-> 0, mask |-> 0]

Init ==
  /\ cp = kwsysProcess_New
  /\ fdtab = [n \in Fds |-> IF n <= 2 THEN Tty ELSE Closed]
  /\ proc = [p \in Pids |-> "none"]
  /\ nextPid = 1
  /\ run = <<>>
  /\ pend = NoPend
  /\ sigchld = "HostHandler"
  /\ now = Time(0, 0)
  /\ pc = "idle"
  /\ loc = NoLoc
  /\ ret = NoRet
  /\ hist = NoHist

Returned(op, val) == [op |-> op, val |-> val, ut |-> 0, len |-> 0, mask |-> 0]

(* ------------------------- configuration calls ------------------------ *)
\* The allocations of AddCommand that can fail: the array of commands, the
\* argument vector, one of its strings.
AddCommandOoms == {"none", "array", "argv", "strdup"}

\* A bug AddCommand could have: when a strdup fails, the array with the
\* arguments copied so far is installed.
AddCommandPartial(c, command, oom) ==
  IF command = NullArgv \/ oom \in {"array", "argv"}
  THEN [c |-> c, val |-> 0]
  ELSE IF oom = "strdup"
  THEN [c |-> [c EXCEPT !.Commands = Append(c.Commands, <<>>),
                        !.NumberOfCommands = c.NumberOfCommands + 1],
        val |-> 0]
  ELSE [c |-> [c EXCEPT !.Commands = Append(c.Commands, command),
                        !.NumberOfCommands = c.NumberOfCommands + 1],
        val |-> 1]

AddCommandResult(c, command, oom) ==
  IF command = NullArgv \/ oom # "none"
  THEN [c |-> c, val |-> 0]
  ELSE [c |-> [c EXCEPT !.Commands = Append(c.Commands, command),
                        !.NumberOfCommands = c.NumberOfCommands + 1],
        val |-> 1]

kwsysProcess_AddCommand(command, oom) ==
  /\ pc = "idle"
  /\ cp.NumberOfCommands < MaxCommands
  /\ LET r == AddCommandResult(cp, command, oom)
     IN  /\ cp' = r.c
         /\ ret' = Returned("AddCommand", r.val)
  /\ hist' = CallHist(cp)
  /\ UNCHANGED <<fdtab, proc, nextPid, run, pend, sigchld, now, pc, loc>>

SetCommandResult(c, command, oom) ==
  LET cleared == [c EXCEPT !.Commands = <<>>, !.NumberOfCommands = 0]
  IN  IF command # NullArgv
      THEN AddCommandResult(cleared, command, oom)
      ELSE [c |-> cleared, val |-> 1]

kwsysProcess_SetCommand(command, oom) ==
  /\ pc = "idle"
  /\ LET r == SetCommandResult(cp, command, oom)
     IN  /\ cp' = r.c
         /\ ret' = Returned("SetCommand", r.val)
  /\ hist' = CallHist(cp)
  /\ UNCHANGED <<fdtab, proc, nextPid, run, pend, sigchld, now, pc, loc>>

SetTimeoutResult(c, timeout) ==
  [c EXCEPT !.Timeout = IF timeout < 0 THEN 0 ELSE timeout]

kwsysProcess_SetTimeout(timeout) ==
  /\ pc = "idle"
  /\ cp' = SetTimeoutResult(cp, timeout)
  /\ ret' = Returned("SetTimeout", 0)
  /\ hist' = CallHist(cp)
  /\ UNCHANGED <<fdtab, proc, nextPid, run, pend, sigchld, now, pc, loc>>

(* ------------------- the world a call works on ------------------------ *)
\* A call threads everything it reads and writes through one record: the
\* control structure c, the descriptor table fd, the children, the pipes, the
\* SIGCHLD disposition sig, the signals sent so far (sigs), the locals of
\* Execute (si, readEnd) and the first step that failed (fail).
NoSi == [stdin |-> -1, stdout |-> -1, stderr |-> -1, term |-> -1, error0 |-> -1, error1 |-> -1]

World ==
  [c |-> cp, fd |-> fdtab, proc |-> proc, nextPid |-> nextPid, run |-> run,
   pend |-> pend, sig |-> sigchld, sigs |-> hist.sigs,
   si |-> NoSi, readEnd |-> 0, fail |-> "none"]

\* The world at the start of a public call: nothing signalled yet.
Entry == [World EXCEPT !.sigs = {}]

\* Which pipe of the run a read end belongs to (-1: none of the three).  The
\* run has as many commands as Execute allocated exit codes for; its output is
\* the stdout pipe of the last of them.
PipeOfEnd(e, c) ==
  CASE e = End("stderrR", 0) -> KWSYSPE_PIPE_STDERR
    [] e = End("termR", 0) -> KWSYSPE_PIPE_TERM
    [] e[1] = "outR" /\ e[2] = Len(c.CommandExitCodes.v) - 1 -> KWSYSPE_PIPE_STDOUT
    [] OTHER -> -1

\* close(n): the descriptor is released; a pipe whose read end goes away
\* loses its unread bytes.
WClose(w, n) ==
  IF n \notin Fds THEN w
  ELSE LET p == PipeOfEnd(w.fd[n], w.c)
       IN  [w EXCEPT !.fd = CloseFd(w.fd, n),
                     !.pend = IF p >= 0 THEN [@ EXCEPT ![p] = 0] ELSE @]

\* kill(target, SIGKILL): a live child starts dying; -1 reaches every process
\* the caller may signal.
Signalled(pr, targets) ==
  [p \in Pids |->
     IF p \in targets \/ -1 \in targets
     THEN CASE pr[p] = "running" -> "dying"
            [] pr[p] = "quiet" -> "fading"
            [] OTHER -> pr[p]
     ELSE pr[p]]

WKill(w, targets) ==
  [w EXCEPT !.proc = Signalled(w.proc, targets), !.sigs = @ \cup targets]

\* The pids the loop "for i < NumberOfCommands: if ForkPIDs[i] kill(...)" signals.
KillTargets(c) ==
  IF c.ForkPIDs.alloc
  THEN {c.ForkPIDs.v[i] : i \in {j \in DOMAIN c.ForkPIDs.v :
                                   j <= c.NumberOfCommands /\ c.ForkPIDs.v[j] # 0}}
  ELSE {}

\* kwsysProcessCleanupDescriptor on one slot of cp->PipeReadEnds.
CleanupPipeReadEnd(w, i) ==
  IF w.c.PipeReadEnds[i] >= 0
  THEN [WClose(w, w.c.PipeReadEnds[i]) EXCEPT !.c.PipeReadEnds[i] = -1]
  ELSE w

\* kwsysProcessCleanupDescriptor on one field of si.
CleanupSi(w, field) ==
  IF w.si[field] >= 0
  THEN [WClose(w, w.si[field]) EXCEPT !.si[field] = -1]
  ELSE w

\* kwsysProcessCleanupDescriptor(&readEnd).
CleanupReadEnd(w) ==
  IF w.readEnd >= 0
  THEN [WClose(w, w.readEnd) EXCEPT !.readEnd = -1]
  ELSE w

\* The three slots of cp->PipeReadEnds from slot i on.
RECURSIVE CleanupPipeReadEnds(_, _)
CleanupPipeReadEnds(w, i) ==
  IF i >= KWSYSPE_PIPE_COUNT THEN w
  ELSE Once({CleanupPipeReadEnds(x, i + 1) : x \in {CleanupPipeReadEnd(w, i)}})

\* A bug kwsysProcessCleanup could have: the children of a failed setup are
\* not killed.
CleanupWithoutKill(w, error) ==
  LET w1 == IF error
            THEN [w EXCEPT !.c.ErrorMessage = IF @ = "" THEN "strerror" ELSE @,
                           !.c.State = "Error"]
            ELSE w
  IN  CleanupPipeReadEnds([w1 EXCEPT !.sig = w.c.OldSigChldAction,
                                     !.c.ForkPIDs = NULL], 0)

\* A bug kwsysProcessCleanup could have: the error is reported, the state is
\* left as kwsysProcessInitialize set it.
CleanupLeavesState(w, error) ==
  LET w1 == IF error
            THEN WKill([w EXCEPT !.c.ErrorMessage = IF @ = "" THEN "strerror" ELSE @],
                       KillTargets(w.c))
            ELSE w
  IN  CleanupPipeReadEnds([w1 EXCEPT !.sig = w.c.OldSigChldAction,
                                     !.c.ForkPIDs = NULL], 0)

\* A bug kwsysProcessCleanup could have: the SIGCHLD disposition is left at
\* its default.
CleanupKeepsDefault(w, error) ==
  LET w1 == IF error
            THEN WKill([w EXCEPT !.c.ErrorMessage = IF @ = "" THEN "strerror" ELSE @,
                                 !.c.State = "Error"],
                       KillTargets(w.c))
            ELSE w
  IN  CleanupPipeReadEnds([w1 EXCEPT !.c.ForkPIDs = NULL], 0)

\* A bug kwsysProcessCleanup could have: the pid array is not released.
CleanupKeepsPids(w, error) ==
  LET w1 == IF error
            THEN WKill([w EXCEPT !.c.ErrorMessage = IF @ = "" THEN "strerror" ELSE @,
                                 !.c.State = "Error"],
                       KillTargets(w.c))
            ELSE w
  IN  CleanupPipeReadEnds([w1 EXCEPT !.sig = w.c.OldSigChldAction], 0)

kwsysProcessCleanup(w, error) ==
  LET w1 == IF error
            THEN WKill([w EXCEPT !.c.ErrorMessage = IF @ = "" THEN "strerror" ELSE @,
                                 !.c.State = "Error"],
                       KillTargets(w.c))
            ELSE w
  IN  CleanupPipeReadEnds([w1 EXCEPT !.sig = w.c.OldSigChldAction,
                                     !.c.ForkPIDs = NULL], 0)

(* ------------------------------ Execute ------------------------------- *)
\* The steps of Execute that can fail before the first child is created, and
\* the steps of kwsysProcessCreate that can fail for one command.
PreFails == {"malloc_pids", "malloc_codes", "pipe_stderr", "fcntl_stderr",
             "pipe_term", "fcntl_term"}
CreateFails == {"pipe_stdout", "fcntl_stdout", "pipe_error", "fcntl_error",
                "fork", "exec"}
NoFail == [at |-> -1, what |-> "none"]
ExecuteFails(n) ==
  {NoFail} \cup {[at |-> -1, what |-> x] : x \in PreFails}
           \cup {[at |-> k, what |-> x] : k \in 0 .. (n - 1), x \in CreateFails}

\* A bug kwsysProcessInitialize could have: the Killed and TimeoutExpired
\* latches of the previous run are kept.
InitializeKeepsLatches(c, fail) ==
  LET c1 == [c EXCEPT !.PipeReadEnds = [i \in Pipes |-> -1],
                      !.SelectError = 0,
                      !.StartTime = NoTime,
                      !.TimeoutTime = NoTime,
                      !.PipesLeft = 0,
                      !.PipeSet = {},
                      !.State = "Starting",
                      !.ExitException = "None",
                      !.ExitCode = 1,
                      !.ExitValue = 1,
                      !.ErrorMessage = ""]
      c2 == [c1 EXCEPT !.ForkPIDs = Zeroed(c.NumberOfCommands)]
  IN  IF fail.what = "malloc_pids"
      THEN [c |-> [c1 EXCEPT !.ForkPIDs = NULL], ok |-> FALSE]
      ELSE IF fail.what = "malloc_codes"
      THEN [c |-> [c2 EXCEPT !.CommandExitCodes = NULL], ok |-> FALSE]
      ELSE [c |-> [c2 EXCEPT !.CommandExitCodes = Zeroed(c.NumberOfCommands)],
            ok |-> TRUE]

kwsysProcessInitialize(c, fail) ==
  LET c1 == [c EXCEPT !.PipeReadEnds = [i \in Pipes |-> -1],
                      !.SelectError = 0,
                      !.StartTime = NoTime,
                      !.TimeoutTime = NoTime,
                      !.TimeoutExpired = 0,
                      !.PipesLeft = 0,
                      !.PipeSet = {},
                      !.State = "Starting",
                      !.Killed = 0,
                      !.ExitException = "None",
                      !.ExitCode = 1,
                      !.ExitValue = 1,
                      !.ErrorMessage = ""]
      c2 == [c1 EXCEPT !.ForkPIDs = Zeroed(c.NumberOfCommands)]
  IN  IF fail.what = "malloc_pids"
      THEN [c |-> [c1 EXCEPT !.ForkPIDs = NULL], ok |-> FALSE]
      ELSE IF fail.what = "malloc_codes"
      THEN [c |-> [c2 EXCEPT !.CommandExitCodes = NULL], ok |-> FALSE]
      ELSE [c |-> [c2 EXCEPT !.CommandExitCodes = Zeroed(c.NumberOfCommands)],
            ok |-> TRUE]

\* One round of the loop over the stderr and termination pipes.
SharedPipe(w, i, fail) ==
  LET name == IF i = KWSYSPE_PIPE_STDERR THEN "stderr" ELSE "term"
  IN  IF fail.what = "pipe_" \o name \/ ~CanPipe(w.fd)
      THEN [w |-> kwsysProcessCleanup([w EXCEPT !.fail = "pipe_" \o name], TRUE),
            ok |-> FALSE]
      ELSE
        LET p  == PipeFds(w.fd)
            w1 == [w EXCEPT !.fd[p[1]] = End(name \o "R", 0),
                            !.fd[p[2]] = End(name \o "W", 0),
                            !.c.PipeReadEnds[i] = p[1],
                            !.si[name] = p[2]]
        IN  IF fail.what = "fcntl_" \o name
            THEN [w |-> CleanupSi(CleanupSi(
                          kwsysProcessCleanup([w1 EXCEPT !.fail = "fcntl_" \o name], TRUE),
                          "stderr"), "term"),
                  ok |-> FALSE]
            ELSE [w |-> w1, ok |-> TRUE]

\* The step of kwsysProcessCreate that fails for command `index`, if any:
\* the one the environment picked, or the first one the system cannot serve.
Failed(fail, index, what) == fail.at = index /\ fail.what = what

kwsysProcessCreate(w, index, fail) ==
  LET \* fork() and everything after it.
      Fork(w3) ==
        LET pid == w3.nextPid
            \* The child either execs its program or reports an error and _exits.
            bad == Failed(fail, index, "exec")
            Forked(w4) ==
              \* The parent reads the error pipe into cp->ErrorMessage until EOF.
              IF bad
              THEN [w |-> CleanupSi([w4 EXCEPT !.c.ErrorMessage = "child strerror",
                                               !.fail = "exec"],
                                    "error0"),
                    ok |-> FALSE]
              ELSE [w |-> CleanupSi(IF index > 0
                                    THEN CleanupSi(CleanupSi(w4, "error0"), "stdin")
                                    ELSE CleanupSi(w4, "error0"),
                                    "stdout"),
                    ok |-> TRUE]
        IN  Forked(CleanupSi([w3 EXCEPT !.c.ForkPIDs.v[index + 1] = pid,
                                        !.nextPid = pid + 1,
                                        !.run = Append(@, pid),
                                        !.proc[pid] = IF bad THEN "zombie" ELSE "running"],
                             "error1"))
      \* The error pipe is there: set close-on-exec on it, then fork.
      ErrorPipe(w3) ==
        IF Failed(fail, index, "fcntl_error")
        THEN [w |-> [w3 EXCEPT !.fail = "fcntl_error"], ok |-> FALSE]
        ELSE IF Failed(fail, index, "fork") \/ w3.nextPid > MaxPid
        THEN \* cp->ForkPIDs[index] = fork() stores -1.
             [w |-> [w3 EXCEPT !.c.ForkPIDs.v[index + 1] = -1, !.fail = "fork"],
              ok |-> FALSE]
        ELSE Fork(w3)
      \* The stdout pipe is there: set close-on-exec on it, create the error pipe.
      StdoutPipe(w2) ==
        IF Failed(fail, index, "fcntl_stdout")
        THEN [w |-> [w2 EXCEPT !.fail = "fcntl_stdout"], ok |-> FALSE]
        ELSE IF Failed(fail, index, "pipe_error") \/ ~CanPipe(w2.fd)
        THEN [w |-> [w2 EXCEPT !.fail = "pipe_error"], ok |-> FALSE]
        ELSE LET e == PipeFds(w2.fd)
             IN  ErrorPipe([w2 EXCEPT !.fd[e[1]] = End("epR", index),
                                      !.fd[e[2]] = End("epW", index),
                                      !.si.error0 = e[1],
                                      !.si.error1 = e[2]])
      \* stdin is set up: create the stdout pipe.
      Stdin(w1) ==
        IF Failed(fail, index, "pipe_stdout") \/ ~CanPipe(w1.fd)
        THEN [w |-> [w1 EXCEPT !.fail = "pipe_stdout"], ok |-> FALSE]
        ELSE LET p == PipeFds(w1.fd)
             IN  StdoutPipe([w1 EXCEPT !.fd[p[1]] = End("outR", index),
                                       !.fd[p[2]] = End("outW", index),
                                       !.readEnd = p[1],
                                       !.si.stdout = p[2]])
  IN  \* Setup the process's stdin.
      Stdin(IF index > 0
            THEN [w EXCEPT !.si.stdin = w.readEnd, !.readEnd = 0]
            ELSE [w EXCEPT !.si.stdin = 0])

\* What Execute does when kwsysProcessCreate fails for command i.
CreateFailed(w, i) ==
  LET Rest(w2) == CleanupSi(CleanupSi(CleanupSi(CleanupSi(CleanupSi(w2,
                    "stdout"), "stderr"), "term"), "error0"), "error1")
      Stdin(w1) == Rest(IF i > 0 THEN CleanupSi(w1, "stdin") ELSE w1)
  IN  Stdin(CleanupReadEnd(kwsysProcessCleanup(w, TRUE)))

\* The loop "for(i=0; i < cp->NumberOfCommands; ++i)" of Execute from i on.
RECURSIVE CreatePipeline(_, _, _)
CreatePipeline(w, i, fail) ==
  LET Created(r) == IF r.ok
                    THEN CreatePipeline(r.w, i + 1, fail)
                    ELSE [w |-> CreateFailed(r.w, i), ok |-> FALSE]
  IN  IF i >= w.c.NumberOfCommands
      THEN [w |-> w, ok |-> TRUE]
      ELSE Created(kwsysProcessCreate(w, i, fail))

\* A bug Started could have: the termination pipe is not counted.
StartedUncounted(w) ==
  [CleanupSi(CleanupSi(w, "stderr"), "term")
     EXCEPT !.c.PipeReadEnds[KWSYSPE_PIPE_STDOUT] = w.readEnd,
            !.c.PipesLeft = KWSYSPE_PIPE_COUNT - 1,
            !.c.State = "Executing"]

\* All the children are there: the last stdout pipe is the group's output, the
\* write ends of the shared pipes are closed, the pipes are counted.
Started(w) ==
  [CleanupSi(CleanupSi(w, "stderr"), "term")
     EXCEPT !.c.PipeReadEnds[KWSYSPE_PIPE_STDOUT] = w.readEnd,
            !.c.PipesLeft = KWSYSPE_PIPE_COUNT,
            !.c.State = "Executing"]

\* Everything of Execute after the test for Executing.
ExecuteBody(w, fail, clock) ==
  LET Pipeline(r) == IF ~r.ok THEN r.w ELSE Started(r.w)
      \* The two shared pipes are there: note the start time, create the children.
      Term(s2) ==
        IF ~s2.ok THEN s2.w
        ELSE Pipeline(CreatePipeline([s2.w EXCEPT !.c.StartTime = clock,
                                                  !.c.TimeoutTime = NoTime,
                                                  !.readEnd = 0],
                                     0, fail))
      Stderr(s1) ==
        IF ~s1.ok THEN s1.w
        ELSE Term(SharedPipe(s1.w, KWSYSPE_PIPE_TERM, fail))
      Initialized(init) ==
        IF ~init.ok
        THEN [w EXCEPT !.c = [init.c EXCEPT !.ErrorMessage = "Out of memory",
                                            !.State = "Error"],
                       !.fail = fail.what]
        ELSE \* sigaction(SIGCHLD, SIG_DFL), saving the old disposition.
             Stderr(SharedPipe([w EXCEPT !.c = [init.c EXCEPT !.OldSigChldAction = w.sig],
                                         !.sig = "SIG_DFL"],
                               KWSYSPE_PIPE_STDERR, fail))
  IN  Initialized(kwsysProcessInitialize(w.c, fail))

\* Pipe ends left open by earlier runs belong to pipes no child of the new run
\* holds.
Aged(fd) ==
  [n \in Fds |-> IF fd[n] \in {Closed, Tty, Stale} THEN fd[n] ELSE Stale]

\* Publish the world a call leaves behind.
Publish(w) ==
  /\ cp' = w.c
  /\ fdtab' = w.fd
  /\ proc' = w.proc
  /\ nextPid' = w.nextPid
  /\ run' = w.run
  /\ pend' = w.pend
  /\ sigchld' = w.sig

\* A bug Execute could have: it does not test for a group that is executing.
ExecuteUnguarded(fail) ==
  /\ pc = "idle"
  /\ ret' = Returned("Execute", 0)
  /\ \E w \in {ExecuteBody([Entry EXCEPT !.fd = Aged(fdtab), !.run = <<>>,
                                         !.pend = NoPend],
                           fail, now)} :
       /\ Publish(w)
       /\ hist' = [NoHist EXCEPT !.pre = Snapshot(cp), !.sigs = w.sigs,
                                 !.fail = w.fail, !.sigBefore = sigchld]
  /\ UNCHANGED <<now, pc, loc>>

kwsysProcess_Execute(fail) ==
  /\ pc = "idle"
  /\ ret' = Returned("Execute", 0)
  /\ IF cp.State = "Executing"
     THEN /\ UNCHANGED <<cp, fdtab, proc, nextPid, run, pend, sigchld>>
          /\ hist' = CallHist(cp)
     ELSE \E w \in {ExecuteBody([Entry EXCEPT !.fd = Aged(fdtab), !.run = <<>>,
                                                !.pend = NoPend],
                                  fail, now)} :
              /\ Publish(w)
              /\ hist' = [NoHist EXCEPT !.pre = Snapshot(cp), !.sigs = w.sigs,
                                        !.fail = w.fail, !.sigBefore = sigchld]
  /\ UNCHANGED <<now, pc, loc>>

(* --------------------------- pipes and select ------------------------- *)
ParentHolds(fd, e) == \E n \in Fds : fd[n] = e

\* A bug kwsysProcessCreate could have: close-on-exec is left set on the
\* termination pipe, so that no child holds it once it runs its program.
AtEofTermClosedOnExec(w, p) ==
  CASE p = KWSYSPE_PIPE_STDERR ->
         /\ ~ParentHolds(w.fd, End("stderrW", 0))
         /\ \A k \in DOMAIN w.run : w.proc[w.run[k]] \notin Holders
    [] p = KWSYSPE_PIPE_TERM ->
         ~ParentHolds(w.fd, End("termW", 0))
    [] OTHER ->
         /\ ~ParentHolds(w.fd, End("outW", Len(w.run) - 1))
         /\ w.run # <<>> => w.proc[w.run[Len(w.run)]] \notin Holders

\* A pipe of the run is at end of file when nobody holds its write end: the
\* parent has closed its copy and every child that inherited it has closed it
\* or has exited.  No child closes the termination pipe before it exits.
AtEof(w, p) ==
  CASE p = KWSYSPE_PIPE_STDERR ->
         /\ ~ParentHolds(w.fd, End("stderrW", 0))
         /\ \A k \in DOMAIN w.run : w.proc[w.run[k]] \notin Holders
    [] p = KWSYSPE_PIPE_TERM ->
         /\ ~ParentHolds(w.fd, End("termW", 0))
         /\ \A k \in DOMAIN w.run : w.proc[w.run[k]] \notin Alive
    [] OTHER ->
         /\ ~ParentHolds(w.fd, End("outW", Len(w.run) - 1))
         /\ w.run # <<>> => w.proc[w.run[Len(w.run)]] \notin Holders

\* Whether read(f) returns at once.  The caller's own terminal is ready when
\* the environment says so (tty).
Readable(w, f, tty) ==
  LET e == IF f \in Fds THEN w.fd[f] ELSE Closed
      p == PipeOfEnd(e, w.c)
  IN  IF p >= 0 THEN w.pend[p] > 0 \/ AtEof(w, p)
      ELSE IF e = Tty THEN tty
      ELSE TRUE

\* A bug read could have: the whole pipe is returned whatever the buffer holds.
ReadCountUncapped(w, f) ==
  LET e == IF f \in Fds THEN w.fd[f] ELSE Closed
      p == PipeOfEnd(e, w.c)
  IN  IF p >= 0 THEN w.pend[p] ELSE 0

\* The bytes one read(f, PipeBuffer, KWSYSPE_PIPE_BUFFER_SIZE) returns: 0 at
\* end of file, and nothing positive from what is no pipe of the run.
ReadCount(w, f) ==
  LET e == IF f \in Fds THEN w.fd[f] ELSE Closed
      p == PipeOfEnd(e, w.c)
  IN  IF p >= 0 THEN Min({w.pend[p], KWSYSPE_PIPE_BUFFER_SIZE}) ELSE 0

\* A bug read could have: the bytes are copied and stay in the pipe.
ConsumePeeks(w, f, n) == w

\* read() takes the n bytes it returns out of the pipe.
Consume(w, f, n) ==
  LET p == PipeOfEnd(w.fd[f], w.c)
  IN  IF n > 0 THEN [w EXCEPT !.pend[p] = @ - n] ELSE w

\* pipes & (1 << i) for the two pipes a caller can ask for.
Wants(mask, i) == (mask \div (2 ^ i)) % 2 = 1

\* The loop "for(i=0; i < KWSYSPE_PIPE_COUNT; ++i)" of WaitForData from slot i on:
\* it ends with data to report (pipeId), past the last slot, or asleep in a
\* read that has nothing to return yet (blocked).
RECURSIVE DrainReady(_, _, _, _)
DrainReady(w, i, mask, tty) ==
  LET \* The loop goes on with the next slot.
      Go(v) == Once({DrainReady(x, i + 1, mask, tty) : x \in {v}})
      f == w.c.PipeReadEnds[i]
      \* read() has returned n bytes from slot i.
      Read(w1, n) ==
        IF n > 0
        THEN IF i = KWSYSPE_PIPE_TERM
             THEN Go(w1)
             ELSE IF Wants(mask, i)
             THEN [w |-> w1, pipeId |-> 2 ^ i, length |-> n, blocked |-> FALSE, i |-> i]
             ELSE Go(w1)
        ELSE Go([CleanupPipeReadEnd(w1, i) EXCEPT !.c.PipesLeft = @ - 1])
  IN  IF i >= KWSYSPE_PIPE_COUNT
      THEN [w |-> w, pipeId |-> 0, length |-> 0, blocked |-> FALSE, i |-> 0]
      ELSE IF ~(f >= 0 /\ f \in w.c.PipeSet)
      THEN Go(w)
      ELSE IF ~Readable(w, f, tty)
      THEN [w |-> w, pipeId |-> 0, length |-> 0, blocked |-> TRUE, i |-> i]
      ELSE Once({Read(x, ReadCount(w, f)) :
                   x \in {Consume([w EXCEPT !.c.PipeSet = @ \ {f}], f, ReadCount(w, f))}})

\* A bug kwsysProcessGetTimeoutTime could have: a timeout of 0 is taken for a
\* duration like any other.
GetTimeoutTimeAlways(c, hasUT, ut, clock) ==
  LET c1 == IF c.TimeoutTime.tv_sec < 0
            THEN [c EXCEPT !.TimeoutTime =
                    kwsysProcessTimeAdd(c.StartTime, kwsysProcessTimeFromDouble(c.Timeout))]
            ELSE c
      userTimeoutTime == kwsysProcessTimeAdd(clock, kwsysProcessTimeFromDouble(ut))
  IN  IF hasUT /\ kwsysProcessTimeLess(userTimeoutTime, c1.TimeoutTime)
      THEN [c |-> c1, timeoutTime |-> userTimeoutTime, user |-> 1]
      ELSE [c |-> c1, timeoutTime |-> c1.TimeoutTime, user |-> 0]

kwsysProcessGetTimeoutTime(c, hasUT, ut, clock) ==
  LET c1 == IF c.Timeout # 0 /\ c.TimeoutTime.tv_sec < 0
            THEN [c EXCEPT !.TimeoutTime =
                    kwsysProcessTimeAdd(c.StartTime, kwsysProcessTimeFromDouble(c.Timeout))]
            ELSE c
      userTimeoutTime == kwsysProcessTimeAdd(clock, kwsysProcessTimeFromDouble(ut))
  IN  IF hasUT /\ kwsysProcessTimeLess(userTimeoutTime, c1.TimeoutTime)
      THEN [c |-> c1, timeoutTime |-> userTimeoutTime, user |-> 1]
      ELSE [c |-> c1, timeoutTime |-> c1.TimeoutTime, user |-> 0]

\* 1 when the time has already arrived.
kwsysProcessGetTimeoutLeft(timeoutTime, clock) ==
  IF timeoutTime.tv_sec < 0
  THEN 0
  ELSE IF kwsysProcessTimeSubtract(timeoutTime, clock).tv_sec < 0 THEN 1 ELSE 0

OpenReadEnds(c) == {c.PipeReadEnds[i] : i \in {j \in Pipes : c.PipeReadEnds[j] >= 0}}

\* The body of "while(cp->PipesLeft > 0)" entered at slot i, up to the point
\* where the call selects, sleeps in a read or leaves the loop.
WaitLoop(w, l, i, tty, clock) ==
  LET Stop(w1, next, expired) ==
        [w |-> w1, next |-> next, pipeId |-> 0, length |-> 0, expired |-> expired,
         i |-> 0]
      \* FD_ZERO, FD_SET of the open read ends, then the timeout.
      Sleep(w1) ==
        IF w1.c.PipeSet = {}
        THEN Stop(w1, "return", 0)
        ELSE IF kwsysProcessGetTimeoutLeft(l.timeoutTime, clock) = 1
        THEN Stop(w1, "return", 1)
        ELSE Stop(w1, "select", 0)
      Drained(d) ==
        IF d.blocked
        THEN [w |-> d.w, next |-> "read", pipeId |-> 0, length |-> 0, expired |-> 0,
              i |-> d.i]
        ELSE IF d.pipeId # 0
        THEN [w |-> d.w, next |-> "return", pipeId |-> d.pipeId, length |-> d.length,
              expired |-> 0, i |-> 0]
        ELSE Once({Sleep(x) : x \in {[d.w EXCEPT !.c.PipeSet = OpenReadEnds(d.w.c)]}})
  IN  Once({Drained(d) : d \in {DrainReady(w, i, l.mask, tty)}})

\* The loop from its test on.
WaitLoopTop(w, l, tty, clock) ==
  IF w.c.PipesLeft > 0
  THEN WaitLoop(w, l, 0, tty, clock)
  ELSE [w |-> w, next |-> "return", pipeId |-> 0, length |-> 0, expired |-> 0, i |-> 0]

\* A bug Kill could have: the children are signalled, the latch is not set.
KillResultNoLatch(w) ==
  IF w.c.State # "Executing"
  THEN w
  ELSE WKill(w, KillTargets(w.c))

\* A bug Kill could have: it does not look at the state.
KillResultAnyState(w) == WKill([w EXCEPT !.c.Killed = 1], KillTargets(w.c))

\* kwsysProcess_Kill on the world of a call.
KillResult(w) ==
  IF w.c.State # "Executing"
  THEN w
  ELSE WKill([w EXCEPT !.c.Killed = 1], KillTargets(w.c))

\* "Update the user timeout": what is left of *userTimeout.
UserTimeoutLeft(l, clock) ==
  LET d == kwsysProcessTimeToDouble(kwsysProcessTimeSubtract(clock, l.userStartTime))
  IN  IF ~l.hasUT THEN 0
      ELSE IF l.ut - d < 0 THEN 0 ELSE l.ut - d

\* A bug WaitForData could have: a timeout is taken for the process timeout
\* whoever set it.
WaitForDataResultKills(w, l, pipeId, expired) ==
  IF pipeId # 0
  THEN [w |-> w, val |-> pipeId]
  ELSE IF expired = 1
  THEN [w |-> [KillResult(w) EXCEPT !.c.Killed = 0,
                                    !.c.TimeoutExpired = 1,
                                    !.c.PipesLeft = 0],
        val |-> IF l.user = 1 THEN kwsysProcess_Pipe_Timeout ELSE 0]
  ELSE [w |-> w, val |-> 0]

\* A bug WaitForData could have: the user timeout is reported like closed
\* pipes.
WaitForDataResultSilent(w, l, pipeId, expired) ==
  IF pipeId # 0
  THEN [w |-> w, val |-> pipeId]
  ELSE IF expired = 1 /\ l.user = 0
  THEN [w |-> [KillResult(w) EXCEPT !.c.Killed = 0,
                                    !.c.TimeoutExpired = 1,
                                    !.c.PipesLeft = 0],
        val |-> 0]
  ELSE [w |-> w, val |-> 0]

\* "Check what happened": the value WaitForData returns and what it leaves.
WaitForDataResult(w, l, pipeId, expired) ==
  IF pipeId # 0
  THEN [w |-> w, val |-> pipeId]
  ELSE IF expired = 1
  THEN IF l.user = 1
       THEN [w |-> w, val |-> kwsysProcess_Pipe_Timeout]
       ELSE [w |-> [KillResult(w) EXCEPT !.c.Killed = 0,
                                         !.c.TimeoutExpired = 1,
                                         !.c.PipesLeft = 0],
             val |-> 0]
  ELSE [w |-> w, val |-> 0]

(* ---------------------------- WaitForData ----------------------------- *)
\* The call leaves WaitForData: to the caller, or back into WaitForExit (called
\* by the caller or by Delete).
Return(w, l, pipeId, length, expired, h) ==
  \E res \in {WaitForDataResult(w, l, pipeId, expired)},
     left \in {UserTimeoutLeft(l, now)} :
      /\ Publish(res.w)
      /\ hist' = [h EXCEPT !.sigs = res.w.sigs, !.expired = expired, !.user = l.user,
                           !.expiredSinceKill = @ \/ (expired = 1 /\ l.user = 0)]
      /\ IF l.op = "WaitForData"
         THEN /\ pc' = "idle"
              /\ loc' = NoLoc
              /\ ret' = [op |-> "WaitForData", val |-> res.val, ut |-> left,
                         len |-> length, mask |-> l.mask]
         ELSE IF res.val = kwsysProcess_Pipe_Timeout
         THEN /\ pc' = "idle"
              /\ loc' = NoLoc
              /\ ret' = [op |-> "WaitForExit", val |-> 0, ut |-> left, len |-> 0,
                         mask |-> 0]
         ELSE /\ pc' = "waitpid"
              /\ loc' = [NoLoc EXCEPT !.op = l.op]
              /\ ret' = NoRet

\* The call goes on from where the loop stopped.
Continue(r, l, h) ==
  IF r.next = "return"
  THEN Return(r.w, l, r.pipeId, r.length, r.expired, h)
  ELSE /\ Publish(r.w)
       /\ hist' = [h EXCEPT !.sigs = r.w.sigs]
       /\ pc' = r.next
       /\ loc' = [l EXCEPT !.i = r.i]
       /\ ret' = NoRet

\* WaitForData from its first line: the locals, the deadline, the loop.
EnterWait(op, mask, hasUT, ut, tty) ==
  \E t \in {kwsysProcessGetTimeoutTime(cp, hasUT, ut, now)} :
    \E l \in {[op |-> op, mask |-> mask, hasUT |-> hasUT, ut |-> ut,
                userStartTime |-> IF hasUT THEN now ELSE Time(0, 0),
                timeoutTime |-> t.timeoutTime, user |-> t.user, i |-> 0]} :
      \E r \in {WaitLoopTop([Entry EXCEPT !.c = t.c], l, tty, now)} :
        Continue(r, l, CallHist(cp))

kwsysProcess_WaitForData(mask, hasUT, ut, tty) ==
  /\ pc = "idle"
  /\ EnterWait("WaitForData", mask, hasUT, ut, tty)
  /\ UNCHANGED now

\* select() returns with the descriptors that are ready.  A descriptor that
\* is not open makes select fail instead (EBADF).
SelectReady(tty) ==
  /\ pc = "select"
  /\ \A f \in cp.PipeSet : f \in Fds /\ fdtab[f] # Closed
  /\ \E ready \in {{f \in cp.PipeSet : Readable(World, f, tty)}} :
       /\ ready # {}
       /\ \E r \in {WaitLoopTop([World EXCEPT !.c.PipeSet = ready], loc, tty, now)} :
            Continue(r, loc, hist)
  /\ UNCHANGED now

\* select() returns 0: its timeout ran out with nothing ready.
SelectTimeout ==
  /\ pc = "select"
  /\ loc.timeoutTime.tv_sec >= 0
  /\ kwsysProcessTimeToDouble(now) >= kwsysProcessTimeToDouble(loc.timeoutTime)
  /\ \A f \in cp.PipeSet : f \in Fds /\ fdtab[f] # Closed
  /\ {f \in cp.PipeSet : Readable(World, f, FALSE)} = {}
  /\ Return([World EXCEPT !.c.PipeSet = {}], loc, 0, 0, 1, hist)
  /\ UNCHANGED now

\* select() fails with an error other than EINTR.
SelectFailed(w) ==
  [KillResult([w EXCEPT !.c.ErrorMessage = "strerror"])
     EXCEPT !.c.Killed = 0, !.c.SelectError = 1, !.c.PipesLeft = 0]

SelectError ==
  /\ pc = "select"
  /\ Return(SelectFailed(World), loc, 0, 0, 0, hist)
  /\ UNCHANGED now

\* select() fails with EINTR: the loop around it calls it again.
SelectInterrupted ==
  /\ pc = "select"
  /\ hist.interrupted < MaxInterrupts
  /\ hist' = [hist EXCEPT !.interrupted = @ + 1]
  /\ UNCHANGED <<cp, fdtab, proc, nextPid, run, pend, sigchld, now, pc, loc, ret>>

\* A read that had nothing to return is woken by data or end of file.
ReadReturn(tty) ==
  /\ pc = "read"
  /\ Readable(World, cp.PipeReadEnds[loc.i], tty)
  /\ \E r \in {WaitLoop(World, loc, loc.i, tty, now)} : Continue(r, loc, hist)
  /\ UNCHANGED now

(* ------------------------- WaitForExit and Kill ----------------------- *)
\* The outcome a wait status stands for.
StatusOutcome(c, status) ==
  IF WIFEXITED(status)
  THEN [c EXCEPT !.State = "Exited", !.ExitException = "None",
                 !.ExitCode = status, !.ExitValue = WEXITSTATUS(status)]
  ELSE IF WIFSIGNALED(status)
  THEN [c EXCEPT !.State = "Exception",
                 !.ExitException =
                    CASE WTERMSIG(status) = SIGSEGV -> "Fault"
                      [] WTERMSIG(status) = SIGBUS -> "Fault"
                      [] WTERMSIG(status) = SIGFPE -> "Numerical"
                      [] WTERMSIG(status) = SIGILL -> "Illegal"
                      [] WTERMSIG(status) = SIGINT -> "Interrupt"
                      [] OTHER -> "Other",
                 !.ExitCode = status]
  ELSE [c EXCEPT !.ErrorMessage = "Error getting child return code.",
                 !.State = "Error"]

\* A bug the decode could have: the timeout is looked at before the kill.
OutcomeExpiredFirst(c, status) ==
  IF c.TimeoutExpired # 0
  THEN [c EXCEPT !.State = "Expired"]
  ELSE IF c.Killed # 0
  THEN [c EXCEPT !.State = "Killed"]
  ELSE StatusOutcome(c, status)

\* The outcome from the latches and the last command's status.
Outcome(c, status) ==
  IF c.Killed # 0
  THEN [c EXCEPT !.State = "Killed"]
  ELSE IF c.TimeoutExpired # 0
  THEN [c EXCEPT !.State = "Expired"]
  ELSE StatusOutcome(c, status)

\* The commands the loops of WaitForExit and Kill visit, as indexes into the
\* arrays Execute allocated.
Visited(c) == {j \in DOMAIN c.ForkPIDs.v : j <= c.NumberOfCommands}

\* waitpid(ForkPIDs[i], &CommandExitCodes[i], 0) for one command: a zombie is
\* reaped and its status stored; a pid that is no child of ours any more is
\* an error (ECHILD), reported the first time.
RECURSIVE WaitChildren(_, _, _)
WaitChildren(w, i, st) ==
  LET Go(v) == Once({WaitChildren(x, i + 1, st) : x \in {v}})
      pid == w.c.ForkPIDs.v[i]
  IN  IF i \notin Visited(w.c)
      THEN w
      ELSE IF pid \in Pids /\ w.proc[pid] = "zombie"
      THEN Go([w EXCEPT !.proc[pid] = "reaped",
                        !.c.CommandExitCodes.v[i] = st[i]])
      ELSE Go(IF w.c.State # "Error"
              THEN [w EXCEPT !.c.ErrorMessage = "strerror",
                             !.c.State = "Error"]
              ELSE w)

\* A bug WaitForExit could have: the failure of select is looked at after the
\* latches.
ReapResultLatchesFirst(w, st, oob) ==
  LET Waited(w1) ==
        LET n == w1.c.NumberOfCommands
            status == IF n \in DOMAIN w1.c.CommandExitCodes.v
                      THEN w1.c.CommandExitCodes.v[n] ELSE oob
        IN  IF w1.c.State = "Error"
            THEN kwsysProcessCleanup(w1, FALSE)
            ELSE IF w1.c.Killed # 0 \/ w1.c.TimeoutExpired # 0
            THEN kwsysProcessCleanup([w1 EXCEPT !.c = Outcome(w1.c, status)], FALSE)
            ELSE IF w1.c.SelectError # 0
            THEN [kwsysProcessCleanup(w1, FALSE) EXCEPT !.c.State = "Error"]
            ELSE kwsysProcessCleanup([w1 EXCEPT !.c = Outcome(w1.c, status)], FALSE)
  IN  Once({Waited(x) : x \in {WaitChildren(w, 1, st)}})

\* A bug WaitForExit could have: after a failed select the cleanup is asked to
\* report an error, and so kills the children that have just been waited for.
ReapResultCleanupKills(w, st, oob) ==
  LET Waited(w1) ==
        LET n == w1.c.NumberOfCommands
            status == IF n \in DOMAIN w1.c.CommandExitCodes.v
                      THEN w1.c.CommandExitCodes.v[n] ELSE oob
        IN  IF w1.c.State = "Error"
            THEN kwsysProcessCleanup(w1, FALSE)
            ELSE IF w1.c.SelectError # 0
            THEN kwsysProcessCleanup(w1, TRUE)
            ELSE kwsysProcessCleanup([w1 EXCEPT !.c = Outcome(w1.c, status)], FALSE)
  IN  Once({Waited(x) : x \in {WaitChildren(w, 1, st)}})

\* WaitForExit after the pipes have closed.  `st` is what the children report,
\* `oob` what CommandExitCodes[-1] holds when the run has no command.
ReapResult(w, st, oob) ==
  LET Waited(w1) ==
        LET n == w1.c.NumberOfCommands
            status == IF n \in DOMAIN w1.c.CommandExitCodes.v
                      THEN w1.c.CommandExitCodes.v[n] ELSE oob
        IN  IF w1.c.State = "Error"
            THEN kwsysProcessCleanup(w1, FALSE)
            ELSE IF w1.c.SelectError # 0
            THEN [kwsysProcessCleanup(w1, FALSE) EXCEPT !.c.State = "Error"]
            ELSE kwsysProcessCleanup([w1 EXCEPT !.c = Outcome(w1.c, status)], FALSE)
  IN  Once({Waited(x) : x \in {WaitChildren(w, 1, st)}})

WaitedPids(c) == {c.ForkPIDs.v[j] : j \in Visited(c)}

\* kwsysProcess_Delete after its WaitForExit: the commands, the exit codes and
\* the structure itself are freed.  Nothing reads the structure again; its
\* record is kept at a fixed value in a state of its own.
Released == [kwsysProcess_New EXCEPT !.State = "Deleted"]

\* The waitpid loop returns once no visited child is alive any more; a
\* WaitForExit made by Delete is followed by the rest of Delete.
Reap(st, oob) ==
  /\ pc = "waitpid"
  /\ \A pid \in WaitedPids(cp) \cap Pids : proc[pid] \notin Alive
  /\ \E w \in {ReapResult(World, st, oob)} :
         /\ Publish(IF loc.op = "Delete" THEN [w EXCEPT !.c = Released] ELSE w)
         /\ hist' = [hist EXCEPT !.sigs = w.sigs,
                                 !.waited = WaitedPids(cp),
                                 !.waitFail = \E pid \in WaitedPids(cp) :
                                                 pid \notin Pids \/ proc[pid] # "zombie"]
  /\ pc' = "idle"
  /\ loc' = NoLoc
  /\ ret' = IF loc.op = "Delete" THEN Returned("Delete", 0)
            ELSE Returned("WaitForExit", 1)
  /\ UNCHANGED now

kwsysProcess_WaitForExit(hasUT, ut, tty) ==
  /\ pc = "idle"
  /\ IF cp.State # "Executing"
     THEN /\ ret' = Returned("WaitForExit", 1)
          /\ hist' = CallHist(cp)
          /\ UNCHANGED <<cp, fdtab, proc, nextPid, run, pend, sigchld, pc, loc>>
     ELSE EnterWait("WaitForExit", 0, hasUT, ut, tty)
  /\ UNCHANGED now

kwsysProcess_Kill ==
  /\ pc = "idle"
  /\ \E w \in {KillResult(Entry)} :
         /\ Publish(w)
         /\ hist' = [CallHist(cp) EXCEPT !.sigs = w.sigs,
                                         !.killCalled = @ \/ cp.State = "Executing",
                                         !.expiredSinceKill =
                                            @ /\ cp.State # "Executing"]
  /\ ret' = Returned("Kill", 0)
  /\ UNCHANGED <<now, pc, loc>>

\* A bug Delete could have: the structure is freed without waiting for the run.
DeleteWithoutWait(tty) ==
  /\ pc = "idle"
  /\ cp' = Released
  /\ ret' = Returned("Delete", 0)
  /\ hist' = CallHist(cp)
  /\ UNCHANGED <<fdtab, proc, nextPid, run, pend, sigchld, pc, loc, now>>

\* Delete waits for a group that is executing, then frees everything.
kwsysProcess_Delete(tty) ==
  /\ pc = "idle"
  /\ IF cp.State # "Executing"
     THEN /\ cp' = Released
          /\ ret' = Returned("Delete", 0)
          /\ hist' = CallHist(cp)
          /\ UNCHANGED <<fdtab, proc, nextPid, run, pend, sigchld, pc, loc>>
     ELSE EnterWait("Delete", 0, FALSE, 0, tty)
  /\ UNCHANGED now

\* kwsysProcess_New after a Delete: a fresh structure, or a null pointer when
\* malloc fails.
NewGroup(oom) ==
  /\ pc = "idle"
  /\ cp.State = "Deleted"
  /\ cp' = IF oom THEN cp ELSE kwsysProcess_New
  /\ ret' = Returned("New", IF oom THEN 0 ELSE 1)
  /\ hist' = CallHist(cp)
  /\ UNCHANGED <<fdtab, proc, nextPid, run, pend, sigchld, now, pc, loc>>

(* --------------------------- the environment -------------------------- *)
\* What a child writes in one go: more than a buffer to its standard output,
\* less than a buffer to its standard error.
WriteSizes(p) ==
  IF p = KWSYSPE_PIPE_STDOUT THEN {KWSYSPE_PIPE_BUFFER_SIZE + 1} ELSE {1}

\* The children that hold the write end of pipe p of the running group.
Writers(p) ==
  IF cp.State # "Executing" \/ cp.PipeReadEnds[p] < 0 THEN {}
  ELSE IF p = KWSYSPE_PIPE_STDERR
  THEN {run[k] : k \in DOMAIN run}
  ELSE IF p = KWSYSPE_PIPE_STDOUT /\ run # <<>>
  THEN {run[Len(run)]}
  ELSE {}

\* Once anything else happens, the call that had returned is history: ret and
\* the call's part of hist are cleared, and the run's part with the run.
Forget ==
  IF pc = "idle"
  THEN /\ ret' = NoRet
       /\ hist' = IF cp.State = "Executing" THEN RunHist(hist) ELSE NoHist
  ELSE UNCHANGED <<ret, hist>>

\* The clock is read only on behalf of a group that is executing.
Tick ==
  /\ cp.State = "Executing"
  /\ kwsysProcessTimeToDouble(now) < MaxClock * kwsysProcessTimeToDouble(HalfSecond)
  /\ now' = kwsysProcessTimeFromDouble(kwsysProcessTimeToDouble(now) +
                                       kwsysProcessTimeToDouble(HalfSecond))
  /\ Forget
  /\ UNCHANGED <<cp, fdtab, proc, nextPid, run, pend, sigchld, pc, loc>>

ChildWrite(pid, p, n) ==
  /\ pid \in Writers(p)
  /\ proc[pid] = "running"
  /\ pend[p] = 0
  /\ pend' = [pend EXCEPT ![p] = n]
  /\ Forget
  /\ UNCHANGED <<cp, fdtab, proc, nextPid, run, sigchld, now, pc, loc>>

\* A child writes a byte to the termination pipe, which it inherited open.
ChildWritesTerm(pid) ==
  /\ cp.State = "Executing" /\ cp.PipeReadEnds[KWSYSPE_PIPE_TERM] >= 0
  /\ \E k \in DOMAIN run : run[k] = pid
  /\ proc[pid] = "running"
  /\ pend[KWSYSPE_PIPE_TERM] = 0
  /\ pend' = [pend EXCEPT ![KWSYSPE_PIPE_TERM] = 1]
  /\ Forget
  /\ UNCHANGED <<cp, fdtab, proc, nextPid, run, sigchld, now, pc, loc>>

\* A child closes its standard output and its standard error and runs on.
ChildCloses(pid) ==
  /\ proc[pid] = "running"
  /\ proc' = [proc EXCEPT ![pid] = "quiet"]
  /\ Forget
  /\ UNCHANGED <<cp, fdtab, nextPid, run, pend, sigchld, now, pc, loc>>

\* A child exits or is terminated by something other than this library.
ChildExit(pid) ==
  /\ proc[pid] \in {"running", "quiet"}
  /\ proc' = [proc EXCEPT ![pid] = "zombie"]
  /\ Forget
  /\ UNCHANGED <<cp, fdtab, nextPid, run, pend, sigchld, now, pc, loc>>

\* A SIGKILL that was sent takes effect.
ChildDies(pid) ==
  /\ proc[pid] \in {"dying", "fading"}
  /\ proc' = [proc EXCEPT ![pid] = "zombie"]
  /\ Forget
  /\ UNCHANGED <<cp, fdtab, nextPid, run, pend, sigchld, now, pc, loc>>

\* Somebody else in the host process waits for the child first.
HostReap(pid) ==
  /\ cp.State = "Executing"
  /\ \E k \in DOMAIN run : run[k] = pid
  /\ proc[pid] = "zombie"
  /\ proc' = [proc EXCEPT ![pid] = "reaped"]
  /\ Forget
  /\ UNCHANGED <<cp, fdtab, nextPid, run, pend, sigchld, now, pc, loc>>

\* The dispositions the host installs for SIGCHLD.
HostDispositions == {"HostHandler", "SIG_IGN"}

\* The host changes the SIGCHLD disposition while no group is executing.
HostSigaction(d) ==
  /\ pc = "idle"
  /\ cp.State # "Executing"
  /\ d # sigchld
  /\ sigchld' = d
  /\ Forget
  /\ UNCHANGED <<cp, fdtab, proc, nextPid, run, pend, now, pc, loc>>

(* --------------------------- specifications --------------------------- *)
\* The statuses the children of the running group can report, by command.
StatusVectors ==
  {st \in [1 .. cp.NumberOfCommands -> ChildStatuses] :
     \A i \in 1 .. (cp.NumberOfCommands - 1) : st[i] \in EarlyStatuses}

\* What CommandExitCodes[-1] can hold; it is read only when there is no command.
StrayStatuses == IF cp.NumberOfCommands = 0 THEN AnyStatuses ELSE {ExitStatus(0)}

\* Whether the caller's terminal has something to read: it matters only to a
\* group that waits on it.
TtyReady == IF \E i \in Pipes : cp.PipeReadEnds[i] \in Fds /\ fdtab[cp.PipeReadEnds[i]] = Tty
            THEN BOOLEAN ELSE {FALSE}

\* The caller configures the group before it executes it for the first time.
Configure ==
  /\ cp.State = "Starting"
  /\ \/ \E command \in Argvs \cup {NullArgv}, oom \in AddCommandOoms :
          kwsysProcess_AddCommand(command, oom)
     \/ \E command \in Argvs \cup {NullArgv}, oom \in AddCommandOoms :
          kwsysProcess_SetCommand(command, oom)
     \/ \E timeout \in TimeoutArgs : kwsysProcess_SetTimeout(timeout)

UserTimeouts == {[has |-> FALSE, ut |-> 0]} \cup {[has |-> TRUE, ut |-> u] : u \in UserTimeoutArgs}

\* The caller gives the group a command before it executes it.  Execute fails
\* here only where the system cannot serve it.
Call ==
  \/ /\ cp.NumberOfCommands >= 1
     /\ kwsysProcess_Execute(NoFail)
  \/ \E mask \in 0 .. 3, u \in UserTimeouts, tty \in TtyReady :
       kwsysProcess_WaitForData(mask, u.has, u.ut, tty)
  \/ \E u \in UserTimeouts, tty \in TtyReady : kwsysProcess_WaitForExit(u.has, u.ut, tty)
  \/ kwsysProcess_Kill

Resume ==
  \/ \E tty \in TtyReady : SelectReady(tty)
  \/ SelectTimeout
  \/ SelectError
  \/ \E tty \in TtyReady : ReadReturn(tty)
  \/ \E st \in StatusVectors, oob \in StrayStatuses : Reap(st, oob)

Environment ==
  \/ Tick
  \/ \E pid \in Pids, p \in Pipes : \E n \in WriteSizes(p) : ChildWrite(pid, p, n)
  \/ \E pid \in Pids : ChildExit(pid)
  \/ \E pid \in Pids : ChildDies(pid)
  \/ \E pid \in Pids : HostReap(pid)

Next == Configure \/ Call \/ Resume \/ Environment

Spec == Init /\ [][Next]_vars

\* Setting a group up, with every step of Execute able to fail: the caller
\* configures, executes, kills and waits without timeouts; the children stay
\* silent until they exit or are killed.
SetupNext ==
  \/ Configure
  \/ /\ cp.NumberOfCommands >= 1
     /\ \E fail \in ExecuteFails(cp.NumberOfCommands) : kwsysProcess_Execute(fail)
  \/ kwsysProcess_WaitForExit(FALSE, 0, FALSE)
  \/ kwsysProcess_Kill
  \/ SelectReady(FALSE)
  \/ \E st \in StatusVectors, oob \in StrayStatuses : Reap(st, oob)
  \/ \E pid \in Pids : ChildExit(pid)
  \/ \E pid \in Pids : ChildDies(pid)

SpecSetup == Init /\ [][SetupNext]_vars

\* One run whose children never exit on their own and whose caller never
\* kills: the caller waits, with and without user timeouts, the children
\* write, the clock advances.  Whatever can go on does go on.
LiveNext ==
  \/ Configure
  \/ /\ cp.State = "Starting"
     /\ cp.NumberOfCommands >= 1
     /\ kwsysProcess_Execute(NoFail)
  \/ \E mask \in 0 .. 3, u \in UserTimeouts :
       kwsysProcess_WaitForData(mask, u.has, u.ut, FALSE)
  \/ kwsysProcess_WaitForExit(FALSE, 0, FALSE)
  \/ SelectReady(FALSE)
  \/ SelectTimeout
  \/ ReadReturn(FALSE)
  \/ \E st \in StatusVectors, oob \in StrayStatuses : Reap(st, oob)
  \/ Tick
  \/ \E pid \in Pids, p \in Pipes : \E n \in WriteSizes(p) : ChildWrite(pid, p, n)
  \/ \E pid \in Pids : ChildDies(pid)

SpecLive ==
  /\ Init
  /\ [][LiveNext]_vars
  /\ WF_vars(Tick)
  /\ WF_vars(SelectReady(FALSE))
  /\ WF_vars(SelectTimeout)
  /\ WF_vars(ReadReturn(FALSE))
  /\ WF_vars(\E st \in StatusVectors, oob \in StrayStatuses : Reap(st, oob))
  /\ WF_vars(\E pid \in Pids : ChildDies(pid))

\* Configuring a group before its first run and between its runs: the caller
\* installs commands that differ from one another, with every allocation able
\* to fail; a run is started, killed and waited for.
ConfigArgvs == {<<"cc1plus", "-quiet">>, <<"cat">>, <<"sh", "-c", "exit 1">>}

ConfigNext ==
  \/ /\ cp.State # "Executing"
     /\ \/ \E command \in ConfigArgvs \cup {NullArgv}, oom \in AddCommandOoms :
             kwsysProcess_AddCommand(command, oom)
        \/ \E command \in ConfigArgvs \cup {NullArgv}, oom \in AddCommandOoms :
             kwsysProcess_SetCommand(command, oom)
        \/ \E timeout \in TimeoutArgs : kwsysProcess_SetTimeout(timeout)
  \/ /\ cp.NumberOfCommands >= 1
     /\ kwsysProcess_Execute(NoFail)
  \/ kwsysProcess_Kill
  \/ kwsysProcess_WaitForExit(FALSE, 0, FALSE)
  \/ SelectReady(FALSE)
  \/ \E st \in StatusVectors, oob \in StrayStatuses : Reap(st, oob)
  \/ \E pid \in Pids : ChildDies(pid)

SpecConfig == Init /\ [][ConfigNext]_vars

\* The life of a group, from New to Delete and to the next New (as long as the
\* system has a pid left): the caller sets and adds commands between runs,
\* sets the process timeout of a new group, executes, kills, waits without
\* user timeouts and deletes; the host changes the SIGCHLD disposition
\* between runs; the children stay silent until they exit or are killed.
\* Execute fails before and after it has changed the disposition, at fork and
\* at the exec of each command.
LifeFails(n) ==
  {NoFail, [at |-> -1, what |-> "malloc_codes"], [at |-> -1, what |-> "fcntl_term"],
   [at |-> n - 1, what |-> "fork"]} \cup {[at |-> k, what |-> "exec"] : k \in 0 .. (n - 1)}

LifeNext ==
  \/ /\ cp.State \notin {"Executing", "Deleted"}
     /\ \/ \E command \in Argvs : kwsysProcess_AddCommand(command, "none")
        \/ \E command \in Argvs : kwsysProcess_SetCommand(command, "none")
  \/ /\ cp.State = "Starting"
     /\ \E timeout \in TimeoutArgs : kwsysProcess_SetTimeout(timeout)
  \/ /\ cp.State # "Deleted"
     /\ cp.NumberOfCommands >= 1
     /\ \E fail \in LifeFails(cp.NumberOfCommands) : kwsysProcess_Execute(fail)
  \/ /\ cp.State # "Deleted"
     /\ kwsysProcess_WaitForExit(FALSE, 0, FALSE)
  \/ /\ cp.State # "Deleted"
     /\ kwsysProcess_Kill
  \/ /\ cp.State # "Deleted"
     /\ kwsysProcess_Delete(FALSE)
  \/ /\ nextPid <= MaxPid
     /\ \E oom \in BOOLEAN : NewGroup(oom)
  \/ \E d \in HostDispositions : HostSigaction(d)
  \/ SelectReady(FALSE)
  \/ SelectTimeout
  \/ SelectError
  \/ \E st \in StatusVectors, oob \in StrayStatuses : Reap(st, oob)
  \/ Tick
  \/ \E pid \in Pids : ChildExit(pid)
  \/ \E pid \in Pids : ChildDies(pid)

SpecLife == Init /\ [][LifeNext]_vars

\* One run without timeouts whose children may close their standard output and
\* error long before they exit and whose select may be interrupted or fail:
\* the caller waits for data and for the exit and kills.
PipesNext ==
  \/ /\ cp.State = "Starting"
     /\ \E command \in Argvs : kwsysProcess_AddCommand(command, "none")
  \/ /\ cp.State = "Starting"
     /\ cp.NumberOfCommands >= 1
     /\ kwsysProcess_Execute(NoFail)
  \/ \E mask \in {0, 3} : kwsysProcess_WaitForData(mask, FALSE, 0, FALSE)
  \/ kwsysProcess_WaitForExit(FALSE, 0, FALSE)
  \/ kwsysProcess_Kill
  \/ SelectReady(FALSE)
  \/ SelectInterrupted
  \/ SelectError
  \/ \E st \in StatusVectors, oob \in StrayStatuses : Reap(st, oob)
  \/ \E pid \in Pids, p \in Pipes : \E n \in WriteSizes(p) : ChildWrite(pid, p, n)
  \/ \E pid \in Pids : ChildCloses(pid)
  \/ \E pid \in Pids : ChildExit(pid)
  \/ \E pid \in Pids : ChildDies(pid)

SpecPipes == Init /\ [][PipesNext]_vars

\* Whether the loops over the commands stay inside the arrays Execute
\* allocated.  What a loop reads and writes beyond them is not modelled.
LoopsInside == cp.NumberOfCommands <= Len(cp.ForkPIDs.v)

\* What malloc(0) returns for a group without commands: a pointer or null.
MallocZero == {NoFail, [at |-> -1, what |-> "malloc_pids"]}

\* The calls the interface accepts from a careless caller: the group is
\* executed without a command, and its commands are changed while it is
\* executing.  The caller's terminal is silent or at end of file.  The caller
\* kills and waits for the exit only while the loops stay inside the arrays.
MisuseNext ==
  \/ /\ cp.State \in {"Starting", "Executing"}
     /\ \E command \in Argvs : kwsysProcess_AddCommand(command, "none")
  \/ /\ cp.State \in {"Starting", "Executing"}
     /\ \E command \in Argvs \cup {NullArgv} : kwsysProcess_SetCommand(command, "none")
  \/ /\ cp.State = "Starting"
     /\ \E fail \in IF cp.NumberOfCommands = 0 THEN MallocZero ELSE {NoFail} :
          kwsysProcess_Execute(fail)
  \/ \E tty \in TtyReady : kwsysProcess_WaitForData(3, FALSE, 0, tty)
  \/ /\ LoopsInside
     /\ \E tty \in TtyReady : kwsysProcess_WaitForExit(FALSE, 0, tty)
  \/ /\ LoopsInside
     /\ kwsysProcess_Kill
  \/ \E tty \in TtyReady : SelectReady(tty)
  \/ \E st \in StatusVectors, oob \in StrayStatuses : Reap(st, oob)
  \/ \E pid \in Pids, p \in Pipes : \E n \in WriteSizes(p) : ChildWrite(pid, p, n)
  \/ \E pid \in Pids : ChildExit(pid)
  \/ \E pid \in Pids : ChildDies(pid)

SpecMisuse == Init /\ [][MisuseNext]_vars

\* One run read to its end: the caller asks for every combination of the two
\* pipes, with and without user timeout, and waits for the exit; the children
\* write to their output, their error output and the termination pipe.
DataNext ==
  \/ /\ cp.State = "Starting"
     /\ \E command \in Argvs : kwsysProcess_AddCommand(command, "none")
  \/ /\ cp.State = "Starting"
     /\ \E timeout \in TimeoutArgs : kwsysProcess_SetTimeout(timeout)
  \/ /\ cp.State = "Starting"
     /\ cp.NumberOfCommands >= 1
     /\ kwsysProcess_Execute(NoFail)
  \/ /\ cp.State = "Executing"
     /\ \E mask \in 0 .. 3, u \in UserTimeouts :
          kwsysProcess_WaitForData(mask, u.has, u.ut, FALSE)
  \/ /\ cp.State = "Executing"
     /\ kwsysProcess_WaitForExit(FALSE, 0, FALSE)
  \/ SelectReady(FALSE)
  \/ SelectTimeout
  \/ ReadReturn(FALSE)
  \/ \E st \in StatusVectors, oob \in StrayStatuses : Reap(st, oob)
  \/ Tick
  \/ \E pid \in Pids, p \in Pipes : \E n \in WriteSizes(p) : ChildWrite(pid, p, n)
  \/ \E pid \in Pids : ChildWritesTerm(pid)
  \/ \E pid \in Pids : ChildExit(pid)

SpecData == Init /\ [][DataNext]_vars

(* ------------------------------- Execute ------------------------------ *)
\* Execute has just returned from a call made outside Executing.
ExecuteReturned == ret.op = "Execute" /\ hist.pre.State # "Executing"

\* Slot i of PipeReadEnds holds an open descriptor of the read end of pipe i.
SlotOpen(i) ==
  /\ cp.PipeReadEnds[i] \in Fds
  /\ PipeOfEnd(fdtab[cp.PipeReadEnds[i]], cp) = i

\* C1: whenever Execute is called outside Executing and no setup step fails,
\* it returns with State Executing, a non-zero pid recorded for every command,
\* PipesLeft 3, the three PipeReadEnds slots open, and SIGCHLD at its default.
C1_ExecuteSuccess ==
  (ExecuteReturned /\ hist.fail = "none") =>
    /\ cp.State = "Executing"
    /\ cp.ForkPIDs.alloc
    /\ \A i \in 1 .. cp.NumberOfCommands :
         i \in DOMAIN cp.ForkPIDs.v /\ cp.ForkPIDs.v[i] \in Pids
    /\ cp.PipesLeft = KWSYSPE_PIPE_COUNT
    /\ \A i \in Pipes : SlotOpen(i)
    /\ sigchld = "SIG_DFL"

\* A pipeline of two commands has just been started.
C1_Witness ==
  /\ ExecuteReturned /\ hist.fail = "none"
  /\ cp.NumberOfCommands = 2 /\ Len(run) = 2

\* C2: whenever a setup step of Execute (called outside Executing) fails,
\* Execute returns with State Error and a non-empty error message, and every
\* child it had forked has been sent SIGKILL; it never returns in Starting or
\* in Executing.
C2_ExecuteFailure ==
  (ExecuteReturned /\ hist.fail # "none") =>
    /\ cp.State = "Error"
    /\ cp.ErrorMessage # ""
    /\ \A k \in DOMAIN run : run[k] \in hist.sigs

\* The second command of a pipeline could not be created after the first
\* child had been forked.
C2_Witness ==
  /\ ExecuteReturned /\ hist.fail \in CreateFails
  /\ Len(run) >= 1
  /\ cp.State = "Error"

(* ----------------------------- WaitForData ---------------------------- *)
\* The three latches and the state are what the call started from.
LatchesKept ==
  /\ cp.State = hist.pre.State
  /\ cp.Killed = hist.pre.Killed
  /\ cp.TimeoutExpired = hist.pre.TimeoutExpired
  /\ cp.SelectError = hist.pre.SelectError

\* Every child of the run has been sent SIGKILL by the call.
AllSignalled == \A k \in DOMAIN run : run[k] \in hist.sigs

\* The slots of PipeReadEnds that still hold a descriptor.
OpenSlots == {i \in Pipes : cp.PipeReadEnds[i] >= 0}

\* The deadline a wait call with a user timeout should sleep until: the
\* earlier of the process deadline and the user's, no process deadline
\* counting as later than any.
EffectiveDeadline ==
  LET userDeadline == kwsysProcessTimeToDouble(loc.userStartTime) + loc.ut
      deadline == kwsysProcessTimeToDouble(cp.TimeoutTime)
  IN  IF cp.TimeoutTime.tv_sec < 0 \/ userDeadline < deadline
      THEN userDeadline ELSE deadline

\* C3: for every process-timeout setting, a WaitForData called on an executing
\* group with a user timeout sleeps until the earlier of the process deadline
\* and the user's deadline (no process deadline counting as later), and when
\* it returns Pipe_Timeout it leaves *userTimeout at exactly 0.
C3_UserTimeout ==
  /\ (pc = "select" /\ loc.op = "WaitForData" /\ loc.hasUT) =>
       /\ loc.timeoutTime.tv_sec >= 0
       /\ kwsysProcessTimeToDouble(loc.timeoutTime) = EffectiveDeadline
  /\ (ret.op = "WaitForData" /\ ret.val = kwsysProcess_Pipe_Timeout) => ret.ut = 0

\* A WaitForData with a user timeout sleeps in select on behalf of a group
\* that has no process timeout.
C3_Witness ==
  /\ pc = "select" /\ loc.op = "WaitForData" /\ loc.hasUT
  /\ cp.Timeout = 0

\* C4: a WaitForData that returns Pipe_Timeout has sent no signal, has left
\* the Killed, TimeoutExpired and SelectError latches and the state Executing
\* as they were, and has not forced PipesLeft to 0; a WaitForData that ends on
\* the process timeout returns 0, not Pipe_Timeout, with TimeoutExpired set
\* and every child sent SIGKILL.
C4_PipeTimeoutRecoverable ==
  /\ (ret.op = "WaitForData" /\ ret.val = kwsysProcess_Pipe_Timeout) =>
       /\ hist.expired = 1 /\ hist.user = 1
       /\ hist.sigs = {}
       /\ \A k \in DOMAIN run : proc[run[k]] # "dying" \/ hist.pre.Killed = 1
       /\ LatchesKept
       /\ cp.State = "Executing"
       /\ cp.PipesLeft > 0
       /\ cp.PipesLeft = Cardinality(OpenSlots)
  /\ (ret.op = "WaitForData" /\ hist.expired = 1 /\ hist.user = 0) =>
       /\ ret.val = 0
       /\ cp.TimeoutExpired = 1
       /\ cp.PipesLeft = 0
       /\ AllSignalled

\* WaitForData has returned Pipe_Timeout to a caller whose children still run.
C4_Witness ==
  /\ ret.op = "WaitForData" /\ ret.val = kwsysProcess_Pipe_Timeout
  /\ \E k \in DOMAIN run : proc[run[k]] = "running"

(* --------------------------- process timeout -------------------------- *)
\* C5: with a process timeout T > 0 set before Execute, children that never
\* exit on their own and a caller that never kills, a WaitForExit called
\* without a user timeout eventually returns 1 with the state Expired.
C5_TimeoutEnds ==
  (pc # "idle" /\ loc.op = "WaitForExit" /\ ~loc.hasUT /\ cp.Timeout > 0)
    ~> (ret.op = "WaitForExit" /\ ret.val = 1 /\ cp.State = "Expired")

\* WaitForExit, called without a user timeout on a group with a process
\* timeout, sleeps in a read although the process deadline has passed.
C5_Witness ==
  /\ pc = "read" /\ loc.op = "WaitForExit" /\ ~loc.hasUT
  /\ cp.Timeout > 0
  /\ kwsysProcessTimeToDouble(now) > kwsysProcessTimeToDouble(cp.TimeoutTime)
  /\ \A k \in DOMAIN run : proc[run[k]] = "running"

(* -------------------------------- Kill -------------------------------- *)
\* Kill on an executing group: the state stays, Killed is latched, every
\* child is signalled.
KillLatches ==
  (ret.op = "Kill" /\ hist.pre.State = "Executing") =>
    /\ cp.State = "Executing"
    /\ cp.Killed = 1
    /\ AllSignalled

\* Kill on an executing group that is already killed changes nothing.
KillAgain ==
  (pc = "idle" /\ ret'.op = "Kill" /\ cp.State = "Executing" /\ cp.Killed = 1) =>
    /\ cp' = cp
    /\ proc' = proc
    /\ fdtab' = fdtab

\* WaitForExit has returned 1 for a run in which Kill was called.
KilledRunOver ==
  /\ ret.op = "WaitForExit" /\ ret.val = 1
  /\ hist.pre.State = "Executing"
  /\ hist.killCalled

\* The run ended in Error because a waitpid or the select failed.
RunFailed == cp.State = "Error" /\ (hist.waitFail \/ cp.SelectError = 1)

\* C6 as stated: after Kill on an executing group the state once WaitForExit
\* returns 1 is Killed, whatever WaitForData calls and process timeout there
\* are, unless a waitpid or select error put the group in Error.
C6_AsStated ==
  /\ []KillLatches
  /\ [][KillAgain]_vars
  /\ [](KilledRunOver => (cp.State = "Killed" \/ RunFailed))

\* C6: Kill on an executing group leaves State alone, latches Killed and
\* signals every child; a second Kill changes nothing further; once
\* WaitForExit returns 1 the state is Error if a waitpid or the select failed,
\* else Expired if the process timeout expired in a wait call after the last
\* Kill, else Killed.
C6_KillThenWait ==
  /\ []KillLatches
  /\ [][KillAgain]_vars
  /\ [](KilledRunOver =>
          IF hist.waitFail \/ cp.SelectError = 1 THEN cp.State = "Error"
          ELSE IF hist.expiredSinceKill THEN cp.State = "Expired"
          ELSE cp.State = "Killed")

\* A killed run of a group with a process timeout has ended in state Killed.
C6_Witness ==
  /\ KilledRunOver
  /\ cp.State = "Killed"
  /\ cp.Timeout > 0

(* ------------------------ outside of Executing ------------------------ *)
\* What C7 says a call outside Executing leaves alone.
Frame(c) ==
  <<c.State, c.Killed, c.TimeoutExpired, c.SelectError, c.PipesLeft,
    c.ExitException, c.ExitCode, c.ExitValue, c.ErrorMessage>>

QuietCall ==
  (pc = "idle" /\ cp.State # "Executing" /\
   ret'.op \in {"Kill", "WaitForExit", "WaitForData"}) =>
    /\ Frame(cp') = Frame(cp)
    /\ hist'.sigs = {}
    /\ proc' = proc
    /\ pc' = "idle"
    /\ ret'.op = "WaitForExit" => ret'.val = 1
    /\ ret'.op = "WaitForData" => ret'.val = 0

\* C7: in every state other than Executing, Kill, WaitForExit and WaitForData
\* leave State, the three latches, PipesLeft, the exit results and the error
\* message unchanged and send no signal; WaitForExit returns 1 and WaitForData
\* returns 0.
C7_NotExecuting == [][QuietCall]_vars

\* A wait call has returned on a group whose run had expired.
C7_Witness ==
  /\ ret.op \in {"WaitForExit", "WaitForData"}
  /\ hist.pre.State = "Expired"
  /\ cp.State = "Expired"

(* ----------------------------- WaitForExit ---------------------------- *)
\* WaitForExit has returned from a call on an executing group.
WaitForExitReturned == ret.op = "WaitForExit" /\ hist.pre.State = "Executing"

\* C8: WaitForExit on an executing group returns 0 exactly when its
\* WaitForData ended on the user timeout, and 1 otherwise; when it returns 0
\* no child has been waited for, the state is still Executing, SIGCHLD is
\* still at its default, the pid array is still there and the only slots
\* closed are those of pipes that reached end of file.
C8_WaitForExitPaused ==
  WaitForExitReturned =>
    /\ ret.val \in {0, 1}
    /\ ret.val = 0 <=> (hist.expired = 1 /\ hist.user = 1)
    /\ ret.val = 0 =>
         /\ hist.waited = {}
         /\ cp.State = "Executing"
         /\ sigchld = "SIG_DFL"
         /\ cp.ForkPIDs.alloc
         /\ cp.PipesLeft > 0
         /\ cp.PipesLeft = Cardinality(OpenSlots)
         /\ \A i \in OpenSlots : SlotOpen(i)

\* WaitForExit has given up on its user timeout.
C8_Witness == WaitForExitReturned /\ ret.val = 0

\* C9: whenever WaitForExit returns 1 for a group that was executing, the
\* state is Exited, Exception, Killed, Expired or Error, the three
\* PipeReadEnds slots are closed, the pid array is released, waitpid has been
\* called on every child of the run and none of them is left to reap.
C9_WaitForExitDone ==
  (WaitForExitReturned /\ ret.val = 1) =>
    /\ cp.State \in {"Exited", "Exception", "Killed", "Expired", "Error"}
    /\ OpenSlots = {}
    /\ \A n \in Fds : PipeOfEnd(fdtab[n], cp) = -1
    /\ ~cp.ForkPIDs.alloc
    /\ \A k \in DOMAIN run : run[k] \in hist.waited /\ proc[run[k]] = "reaped"

\* A pipeline of two commands has been waited for.
C9_Witness ==
  /\ WaitForExitReturned /\ ret.val = 1
  /\ Len(run) = 2

\* The reference decode of C10, from the latches and the last status.
Decoded(status) ==
  IF hist.waitFail \/ cp.SelectError # 0 THEN [State |-> "Error"]
  ELSE IF cp.Killed # 0 THEN [State |-> "Killed"]
  ELSE IF cp.TimeoutExpired # 0 THEN [State |-> "Expired"]
  ELSE IF \E c \in 0 .. 255 : status = 256 * c
  THEN [State |-> "Exited", ExitValue |-> status \div 256, ExitException |-> "None"]
  ELSE IF status \in 1 .. 126
  THEN [State |-> "Exception",
        ExitException |-> IF status \in {SIGSEGV, SIGBUS} THEN "Fault"
                          ELSE IF status = SIGFPE THEN "Numerical"
                          ELSE IF status = SIGILL THEN "Illegal"
                          ELSE IF status = SIGINT THEN "Interrupt"
                          ELSE "Other"]
  ELSE [State |-> "Error"]

\* C10: the terminal state WaitForExit chooses is the reference decode of the
\* latches and the last command's wait status: Error if a waitpid failed or
\* SelectError is set, else Killed, else Expired, else Exited with the exit
\* code as ExitValue and no exception, else Exception with the category of the
\* signal, else Error; the statuses of earlier commands play no part.
C10_Decode ==
  (WaitForExitReturned /\ ret.val = 1) =>
    LET d == Decoded(cp.CommandExitCodes.v[cp.NumberOfCommands])
    IN  \A f \in DOMAIN d : cp[f] = d[f]

\* The last of two commands was terminated by SIGFPE after the first one had
\* crashed.
C10_Witness ==
  /\ WaitForExitReturned /\ ret.val = 1
  /\ cp.NumberOfCommands = 2
  /\ cp.State = "Exception" /\ cp.ExitException = "Numerical"
  /\ cp.CommandExitCodes.v[1] = SignalStatus(SIGSEGV)

(* ----------------------------- invariants ----------------------------- *)
\* C11: between public calls, whenever the state is not Executing (a group
\* just created, one whose Execute failed, one whose run is over) each of the
\* three PipeReadEnds slots holds the closed sentinel -1.
C11_SlotsClosed ==
  (pc = "idle" /\ cp.State # "Executing") =>
    \A i \in Pipes : cp.PipeReadEnds[i] = -1

\* Commands have been added to a group that has never been executed.
C11_Witness ==
  /\ pc = "idle" /\ cp.State = "Starting"
  /\ cp.NumberOfCommands = 2

\* C12: between public calls, whenever the state is Executing, PipesLeft is
\* the number of PipeReadEnds slots that are not closed, also after WaitForData
\* has handled the expiry of the process timeout or a failure of select.
C12_PipesLeftCounts ==
  (pc = "idle" /\ cp.State = "Executing") =>
    cp.PipesLeft = Cardinality(OpenSlots)

\* WaitForData has returned 0 after the process timeout expired.
C12_Witness ==
  /\ ret.op = "WaitForData" /\ ret.val = 0
  /\ hist.expired = 1 /\ hist.user = 0
  /\ cp.State = "Executing"

\* A child has reported through its error pipe that it could not exec.
ExecFailureReported == cp.ErrorMessage = "child strerror"

\* C14: between public calls, once the group has been executed, the error
\* message is non-empty exactly when the state is Error or a child reported an
\* exec failure; so it is empty in Executing and non-empty in Error.
C14_ErrorMessage ==
  (pc = "idle" /\ cp.State # "Starting") =>
    (cp.ErrorMessage # "" <=> (cp.State = "Error" \/ ExecFailureReported))

\* WaitForData has returned 0 after select failed; WaitForExit has not been
\* called yet.
C14_Witness ==
  /\ ret.op = "WaitForData" /\ ret.val = 0
  /\ cp.SelectError = 1
  /\ cp.State = "Executing"

(* ------------------------- what WaitForData reports ------------------- *)
\* The two pipe identifiers a caller can be handed.
PipeIds == {2 ^ KWSYSPE_PIPE_STDOUT, 2 ^ KWSYSPE_PIPE_STDERR}

\* C15: WaitForData returns 1 (stdout), 2 (stderr), 0 or Pipe_Timeout; it
\* returns the id 1<<i only when bit i of the caller's mask is set, and then
\* the length it reports is between 1 and 1024; the termination pipe is never
\* reported, and with mask 0 no pipe id is returned.
C15_Reported ==
  ret.op = "WaitForData" =>
    /\ ret.val \in PipeIds \cup {0, kwsysProcess_Pipe_Timeout}
    /\ ret.val # 2 ^ KWSYSPE_PIPE_TERM
    /\ ret.val \in PipeIds =>
         /\ (ret.mask \div ret.val) % 2 = 1
         /\ ret.len \in 1 .. KWSYSPE_PIPE_BUFFER_SIZE
    /\ ret.mask = 0 => ret.val \notin PipeIds

\* WaitForData has handed the caller a full buffer of the group's output.
C15_Witness ==
  /\ ret.op = "WaitForData" /\ ret.val = 2 ^ KWSYSPE_PIPE_STDOUT
  /\ ret.len = KWSYSPE_PIPE_BUFFER_SIZE
  /\ ret.mask = 3

(* ------------------------- the life of a group ----------------------- *)
\* A step on a group that has left Starting leaves it outside Starting, unless
\* the step is the New that follows a Delete.
StaysPastStarting ==
  (cp.State \notin {"Starting", "Deleted"}) => cp'.State # "Starting"

\* C13: once a group has reached Executing, no public operation on it makes
\* its state Starting again; only Delete followed by New gives a group in
\* Starting.  (Checked for every group that has left Starting, whether its
\* first Execute succeeded or not.)
C13_Monotonic == [][StaysPastStarting]_vars

\* Execute has been called again on a group whose run had ended, and has
\* failed.
C13_Witness ==
  /\ ret.op = "Execute" /\ hist.pre.State \in {"Exited", "Exception", "Killed"}
  /\ hist.fail # "none"

\* Execute has just failed because a child could not exec its program.
ExecFailed == ExecuteReturned /\ hist.fail = "exec"

\* Every child the failed Execute forked has been waited for.
NoZombieLeft ==
  ExecFailed =>
    /\ cp.State = "Error"
    /\ \A k \in DOMAIN run : proc[run[k]] = "reaped"

\* An Execute with commands that can be run, made right after the failed one
\* while the system still has a pid for every command, reaches Executing.
Retry ==
  (/\ ExecFailed
   /\ nextPid + cp.NumberOfCommands - 1 <= MaxPid
   /\ kwsysProcess_Execute(NoFail))
    => cp'.State = "Executing"

\* C16: when Execute fails because a child could not exec its program or
\* chdir, Execute returns in Error with no child it forked left as an unreaped
\* zombie, and a second Execute on the same group with a valid command
\* succeeds and reaches Executing.
C16_ExecFailure == []NoZombieLeft /\ [][Retry]_vars

\* The second command of a pipeline could not be exec'ed.
C16_Witness ==
  /\ ExecFailed
  /\ Len(run) = 2 /\ proc[run[2]] = "zombie"

\* Delete has returned from a call on an executing group.
DeleteReturned == ret.op = "Delete" /\ hist.pre.State = "Executing"

\* C17: with one group running at a time, the SIGCHLD disposition is the
\* default one in every state in which the group is Executing, and when the
\* run ends (WaitForExit returns 1, Delete completes, or Execute fails) it is
\* the disposition that was in force when Execute was called.
C17_Sigchld ==
  /\ cp.State = "Executing" => sigchld = "SIG_DFL"
  /\ (WaitForExitReturned /\ ret.val = 1) => sigchld = hist.sigBefore
  /\ DeleteReturned => sigchld = hist.sigBefore
  /\ (ExecuteReturned /\ hist.fail # "none") => sigchld = hist.sigBefore

\* Delete has ended a run that was started while the host ignored SIGCHLD.
C17_Witness ==
  /\ DeleteReturned
  /\ hist.sigBefore = "SIG_IGN"

\* The kinds of descriptor that are read ends of a run's pipes.
ReadEndKinds == {"outR", "stderrR", "termR"}

\* The step that completes the Delete of an executing group: every child of
\* the run had terminated before it and has been reaped after it, the parent
\* holds no read end of the run's pipes, SIGCHLD is what it was before Execute,
\* and unless a process timeout was set or select failed the call has sent no
\* signal of its own.
DeleteCompletes ==
  (cp.State = "Executing" /\ ret'.op = "Delete") =>
    /\ pc = "waitpid" /\ loc.op = "Delete" /\ ~loc.hasUT
    /\ \A k \in DOMAIN run : proc[run[k]] \notin Alive
    /\ \A k \in DOMAIN run : proc'[run[k]] = "reaped"
    /\ \A n \in Fds : fdtab'[n][1] \notin ReadEndKinds
    /\ sigchld' = hist'.sigBefore
    /\ (cp.Timeout = 0 /\ cp.SelectError = 0) => hist'.sigs = {}

\* C18: Delete on an executing group runs WaitForExit without a user timeout
\* first: it does not complete before every child of the run has terminated
\* and been reaped; when it completes the pipe read ends are closed and SIGCHLD
\* is restored; and with no process timeout it kills nobody, so that it never
\* completes while a child goes on running.
C18_DeleteWaits == [][DeleteCompletes]_vars

\* Delete has completed on a pipeline of two commands that was executing.
C18_Witness ==
  /\ DeleteReturned
  /\ Len(run) = 2
  /\ \A k \in DOMAIN run : proc[run[k]] = "reaped"

(* ---------------------------- configuration -------------------------- *)
\* AddCommand with a command and enough memory appends the command and
\* returns 1; otherwise it returns 0 and leaves the list and its length alone.
AddCommandAtomic ==
  \A command \in ConfigArgvs \cup {NullArgv}, oom \in AddCommandOoms :
    kwsysProcess_AddCommand(command, oom) =>
      IF command # NullArgv /\ oom = "none"
      THEN /\ ret'.val = 1
           /\ cp'.NumberOfCommands = cp.NumberOfCommands + 1
           /\ Len(cp'.Commands) = cp'.NumberOfCommands
           /\ \A i \in 1 .. cp.NumberOfCommands : cp'.Commands[i] = cp.Commands[i]
           /\ cp'.Commands[cp'.NumberOfCommands] = command
      ELSE /\ ret'.val = 0
           /\ cp'.Commands = cp.Commands
           /\ cp'.NumberOfCommands = cp.NumberOfCommands

\* SetCommand with a command and enough memory leaves that command alone in
\* the list; SetCommand with a null pointer leaves the list empty.
SetCommandReplaces ==
  \A command \in ConfigArgvs \cup {NullArgv} :
    kwsysProcess_SetCommand(command, "none") =>
      /\ ret'.val = 1
      /\ cp'.Commands = IF command = NullArgv THEN <<>> ELSE <<command>>
      /\ cp'.NumberOfCommands = Len(cp'.Commands)

SetTimeoutClamps ==
  \A timeout \in TimeoutArgs :
    kwsysProcess_SetTimeout(timeout) =>
      cp'.Timeout = IF timeout > 0 THEN timeout ELSE 0

\* A group whose Timeout is 0 never has TimeoutExpired latched and is never
\* Expired; its wait calls end on no timeout but the user's, and they send a
\* signal only when select has failed.
NoTimeoutNoExpiry ==
  cp.Timeout = 0 =>
    /\ cp.TimeoutExpired = 0
    /\ cp.State # "Expired"
    /\ hist.expired = 1 => hist.user = 1
    /\ ~hist.expiredSinceKill
    /\ (hist.sigs # {} /\ (pc # "idle" \/ ret.op \in {"WaitForData", "WaitForExit"}))
         => cp.SelectError = 1

\* C20: SetTimeout stores max(seconds, 0), and a stored 0 means no process
\* timeout: in a run started with Timeout 0 (set as 0 or as a negative value)
\* TimeoutExpired is never latched, the engine kills no child for a timeout
\* and the state never becomes Expired, however long the children run and
\* however many waits are made.
C20_NoTimeout == [][SetTimeoutClamps]_vars /\ []NoTimeoutNoExpiry

\* A wait call sleeps in select on behalf of a group without process timeout
\* whose children are still running when the clock has reached its last tick.
C20_Witness ==
  /\ cp.Timeout = 0 /\ cp.State = "Executing"
  /\ pc = "select"
  /\ kwsysProcessTimeToDouble(now) = MaxClock * kwsysProcessTimeToDouble(HalfSecond)
  /\ \A k \in DOMAIN run : proc[run[k]] = "running"

\* C23: once WaitForData has latched the expiry of the process timeout, the
\* WaitForExit that returns 1 without a waitpid error leaves the group in
\* Expired, whatever the caller called in between.
C23_ExpiryTerminal ==
  (WaitForExitReturned /\ ret.val = 1 /\ cp.TimeoutExpired = 1 /\ ~hist.waitFail)
    => cp.State = "Expired"

\* The run expired, the caller then called Kill, and the run ended as Killed.
C23_Witness ==
  /\ WaitForExitReturned /\ ret.val = 1
  /\ cp.TimeoutExpired = 1 /\ ~hist.waitFail
  /\ hist.killCalled /\ ~hist.expiredSinceKill
  /\ cp.State = "Killed"

\* No pipe end is open in the parent and no slot of PipeReadEnds names one.
NothingOpen ==
  /\ \A n \in Fds : fdtab[n] \in {Closed, Tty, Stale}
  /\ \A i \in Pipes : cp.PipeReadEnds[i] = -1

\* C24: when Execute returns in Error, whatever step of it failed, every pipe
\* end it created is closed in the parent and every read-end slot holds -1.
C24_NoLeak == (ExecuteReturned /\ cp.State = "Error") => NothingOpen

\* The termination pipe could not be created and the write end of the stderr
\* pipe is still open.
C24_Witness ==
  /\ ExecuteReturned /\ hist.fail = "pipe_term"
  /\ ParentHolds(fdtab, End("stderrW", 0))

\* The children forked by the current run.
RunPids == {run[k] : k \in DOMAIN run}

\* C25: every SIGKILL is sent to the pid of a child the current run forked;
\* none is sent to a non-positive pid.
C25_KillsOwnChildren == hist.sigs \subseteq RunPids

\* fork failed for the second command and kill(-1, SIGKILL) was called.
C25_Witness ==
  /\ ExecuteReturned /\ hist.fail = "fork"
  /\ Len(run) = 1
  /\ -1 \in hist.sigs

\* C26: when Execute returns, on success or after any failure, descriptor 0 of
\* the caller is still open in the parent.
C26_StdinKept == ExecuteReturned => fdtab[0] = Tty

\* The stdout pipe of the first command could not be created and descriptor 0
\* is closed.
C26_Witness ==
  /\ ExecuteReturned /\ hist.fail = "pipe_stdout"
  /\ run = <<>>
  /\ fdtab[0] = Closed

\* Execute has just returned from a call on a group whose previous run is over.
Rerun ==
  /\ ExecuteReturned
  /\ hist.pre.State \in {"Exited", "Exception", "Killed", "Expired", "Error"}

\* What the new run starts from: no latch, no result and no deadline of the
\* previous run is left, and a run that started has no error message and
\* starts its timeout period now.
FreshRun ==
  Rerun =>
    /\ cp.Killed = 0 /\ cp.TimeoutExpired = 0 /\ cp.SelectError = 0
    /\ cp.ExitException = "None" /\ cp.ExitCode = 1 /\ cp.ExitValue = 1
    /\ cp.TimeoutTime = NoTime
    /\ cp.State = "Executing" => (cp.ErrorMessage = "" /\ cp.StartTime = now)
    /\ cp.State \in {"Executing", "Error"}

\* A run ends as Killed or Expired only for a Kill or an expiry of its own.
OwnOutcome ==
  (WaitForExitReturned /\ ret.val = 1) =>
    /\ cp.State = "Killed" => hist.killCalled
    /\ cp.State = "Expired" => hist.expiredSinceKill

\* C28: Execute on a group in a terminal state resets Killed, TimeoutExpired,
\* SelectError, the error message, the exit results and the process deadline
\* before it spawns, and the terminal state of the new run depends only on
\* what happens in the new run.
C28_Reexecute == FreshRun /\ OwnOutcome

\* A group that was killed, or whose timeout expired, is executing again.
C28_Witness ==
  /\ Rerun /\ hist.pre.Killed + hist.pre.TimeoutExpired >= 1
  /\ cp.State = "Executing"

\* Some child of the run has not exited yet.
ChildAlive == \E k \in DOMAIN run : proc[run[k]] \in Alive

\* No timeout has expired and no select has failed in the run.
NoLatch == cp.TimeoutExpired = 0 /\ cp.SelectError = 0

\* WaitForData has just returned from a call on an executing group.
WaitForDataReturned == ret.op = "WaitForData" /\ hist.pre.State = "Executing"

\* C21: the termination pipe is at end of file only when the last child has
\* exited.  While a child is alive and no latch is set, PipesLeft is positive,
\* whatever the children did with their own stdout and stderr; WaitForData
\* returns 0 for closed pipes only after every child has exited; and the
\* waitpid loop of WaitForExit is entered with no child left alive.
C21_TermPipe ==
  /\ (cp.State = "Executing" /\ NoLatch /\ ChildAlive) => cp.PipesLeft > 0
  /\ (WaitForDataReturned /\ ret.val = 0 /\ NoLatch) => ~ChildAlive
  /\ (pc = "waitpid" /\ NoLatch) => ~ChildAlive

\* Every child has closed its stdout and stderr and runs on, the caller has
\* seen both pipes close and sleeps in select on the termination pipe.
C21_Witness ==
  /\ pc = "select" /\ NoLatch
  /\ Len(run) = 2 /\ \A k \in DOMAIN run : proc[run[k]] = "quiet"
  /\ cp.PipesLeft = 1
  /\ cp.PipeReadEnds[KWSYSPE_PIPE_TERM] >= 0

\* The select of the WaitForData that has just returned failed.
SelectJustFailed ==
  WaitForDataReturned /\ hist.pre.SelectError = 0 /\ cp.SelectError = 1

\* What WaitForData leaves behind when its select fails.
SelectFailureHandled ==
  SelectJustFailed =>
    /\ ret.val = 0
    /\ cp.ErrorMessage = "strerror"
    /\ AllSignalled
    /\ cp.Killed = 0
    /\ cp.PipesLeft = 0
    /\ cp.State = "Executing"

\* A run whose select failed ends in Error.
SelectFailureWins ==
  (WaitForExitReturned /\ ret.val = 1 /\ cp.SelectError = 1) => cp.State = "Error"

\* An interrupted select leaves the group, the children and the descriptors
\* as they are, and the call in select.
InterruptRetried ==
  SelectInterrupted =>
    /\ cp' = cp /\ proc' = proc /\ fdtab' = fdtab /\ pend' = pend
    /\ pc' = "select" /\ loc' = loc

\* C22: when select fails in WaitForData with an error other than EINTR, the
\* message is recorded, every child is sent SIGKILL, Killed is cleared,
\* SelectError is set, PipesLeft is 0 and the call returns 0; the WaitForExit
\* that follows returns 1 with the group in Error, never in Killed, even when
\* the caller calls Kill between the two.  A select interrupted by EINTR is
\* retried and changes none of this.
C22_SelectFailure ==
  /\ []SelectFailureHandled
  /\ []SelectFailureWins
  /\ [][InterruptRetried]_vars

\* select failed, the caller called Kill, and WaitForExit ended in Error.
C22_Witness ==
  /\ WaitForExitReturned /\ ret.val = 1 /\ ~hist.waitFail
  /\ cp.SelectError = 1 /\ cp.Killed = 1
  /\ cp.State = "Error"

\* The pids a step signals: those of the call that starts with the step, or
\* those a call in progress had not signalled yet.
NewlySignalled == IF pc = "idle" THEN hist'.sigs ELSE hist'.sigs \ hist.sigs

\* Whoever is signalled is a child that runs or a zombie not yet waited for.
\* The only step that waits for children signals after it has waited, the
\* other steps leave a zombie a zombie: the child is looked at after the step.
SignalsUnreaped ==
  \A pid \in NewlySignalled :
    /\ pid \in Pids
    /\ proc'[pid] \in Alive \cup {"zombie"}

C27_LoopsMatchArrays ==
  cp.State = "Executing" =>
    /\ cp.NumberOfCommands = Len(cp.ForkPIDs.v)
    /\ cp.NumberOfCommands = Len(cp.CommandExitCodes.v)

\* AddCommand was called on a run of one command: the loops go over two
\* commands, the arrays have one slot.
C27_Witness ==
  /\ ret.op = "AddCommand" /\ ret.val = 1
  /\ cp.State = "Executing"
  /\ cp.NumberOfCommands = 2 /\ Len(cp.ForkPIDs.v) = 1

\* Execute leaves a group in Executing only with a command, and not with the
\* caller's own descriptor as the read end of its output.
ExecutesCommands ==
  (ExecuteReturned /\ cp.State = "Executing") =>
    /\ cp.NumberOfCommands >= 1
    /\ run # <<>>
    /\ \A i \in Pipes : cp.PipeReadEnds[i] \in Fds => fdtab[cp.PipeReadEnds[i]] # Tty

\* C30: a group that is executing has a command: Execute with no command
\* does not enter Executing with the caller's descriptor 0 stored as the
\* stdout read end, and WaitForExit decodes the status of a last command that
\* exists.
C30_NonEmptyRun ==
  /\ ExecutesCommands
  /\ (WaitForExitReturned /\ ret.val = 1) => run # <<>>

\* A group without commands is executing with descriptor 0 as its stdout slot.
C30_Witness ==
  /\ ExecuteReturned /\ cp.State = "Executing"
  /\ cp.NumberOfCommands = 0
  /\ cp.PipeReadEnds[KWSYSPE_PIPE_STDOUT] = 0 /\ fdtab[0] = Tty

\* An Execute on a group that is executing changes nothing of the group, the
\* descriptors, the children, the pipes and the SIGCHLD disposition, and sends
\* no signal.
ExecuteIgnored ==
  (pc = "idle" /\ cp.State = "Executing" /\ ret'.op = "Execute") =>
    /\ cp' = cp
    /\ fdtab' = fdtab /\ pend' = pend
    /\ proc' = proc /\ nextPid' = nextPid /\ run' = run
    /\ sigchld' = sigchld
    /\ hist'.sigs = {}
    /\ pc' = "idle"

\* C31: Execute called on a group that is executing is a no-op: it spawns no
\* child, creates no pipe, does not touch the SIGCHLD disposition and leaves
\* State, the pid array, the pipe slots, PipesLeft, the latches and the
\* process deadline of the running pipeline unchanged.
C31_ExecuteWhileExecuting == [][ExecuteIgnored]_vars

\* Execute has returned on a run in progress: a child has exited, one pipe has
\* been seen to close, Kill has been called.
C31_Witness ==
  /\ ret.op = "Execute" /\ hist.pre.State = "Executing"
  /\ cp.State = "Executing"
  /\ cp.Killed = 1 /\ cp.PipesLeft < KWSYSPE_PIPE_COUNT
  /\ \E k \in DOMAIN run : proc[run[k]] = "zombie"

(* ---- C32: what WaitForData does with the bytes it reads ---- *)
\* The step belongs to the pipe loop of WaitForData, entered by the caller or
\* through WaitForExit: it is no step of a child and none of the clock.
WaitStep ==
  \/ /\ pc = "idle"
     /\ \/ pc' = "idle" /\ ret'.op \in {"WaitForData", "WaitForExit"}
        \/ pc' # "idle" /\ loc'.op \in {"WaitForData", "WaitForExit"}
  \/ /\ pc \in {"select", "read"}
     /\ proc' = proc /\ now' = now
     /\ \A p \in Pipes : pend'[p] <= pend[p]

\* The pipes argument of the call the step belongs to.
StepMask ==
  IF pc # "idle" THEN loc.mask
  ELSE IF pc' = "idle" THEN ret'.mask
  ELSE loc'.mask

\* The bytes of pipe p the step hands to the caller.
Delivered(p) ==
  IF pc' = "idle" /\ ret'.op = "WaitForData" /\ ret'.val = 2 ^ p THEN ret'.len ELSE 0

\* The slots the step closes.
SlotsClosed == {i \in Pipes : cp.PipeReadEnds[i] >= 0 /\ cp'.PipeReadEnds[i] < 0}

\* read() takes the oldest bytes of a pipe, so a pipe's bytes reach the caller
\* in order, none lost and none twice, when every step takes from the pipe
\* exactly the bytes it delivers.
BytesAccounted ==
  WaitStep =>
    /\ \A p \in Pipes :
         /\ pend'[p] >= 0
         /\ pend[p] - pend'[p] <= KWSYSPE_PIPE_BUFFER_SIZE
         /\ (p # KWSYSPE_PIPE_TERM /\ Wants(StepMask, p)) =>
               pend[p] - pend'[p] = Delivered(p)
         /\ (p = KWSYSPE_PIPE_TERM \/ ~Wants(StepMask, p)) => Delivered(p) = 0
         /\ Delivered(p) > 0 => cp'.PipeReadEnds[p] \notin cp'.PipeSet
    /\ (pc' = "idle" /\ ret'.op = "WaitForData") =>
         /\ ret'.val \in {0, 2 ^ KWSYSPE_PIPE_STDOUT, 2 ^ KWSYSPE_PIPE_STDERR,
                          kwsysProcess_Pipe_Timeout}
         /\ ret'.len <= KWSYSPE_PIPE_BUFFER_SIZE
         /\ ret'.val \in {2 ^ KWSYSPE_PIPE_STDOUT, 2 ^ KWSYSPE_PIPE_STDERR} <=> ret'.len > 0
    /\ (/\ cp'.State = cp.State
        /\ cp'.TimeoutExpired = cp.TimeoutExpired
        /\ cp'.SelectError = cp.SelectError) =>
         /\ cp.PipesLeft - cp'.PipesLeft = Cardinality(SlotsClosed)
         /\ \A i \in SlotsClosed : pend[i] = 0 /\ AtEof(World, i)

\* C32: in every step of WaitForData each pipe is read at most once (no more
\* than one buffer leaves it) and at most one buffer is handed back; a data
\* pipe selected in the mask loses exactly the bytes that are delivered, so
\* that its bytes arrive in order, none lost and none twice; bytes of a pipe
\* that is not selected and of the termination pipe are taken and never
\* delivered; a slot is closed only by a read of 0 bytes, and PipesLeft goes
\* down by one for each slot closed.
C32_BytesDelivered == [][BytesAccounted]_vars

\* WaitForData asked for standard error only, closed standard output on a
\* read of 0 bytes and handed back the byte a child wrote to standard error.
C32_Witness ==
  /\ ret.op = "WaitForData" /\ ret.mask = 2 ^ KWSYSPE_PIPE_STDERR
  /\ ret.val = 2 ^ KWSYSPE_PIPE_STDERR /\ ret.len = 1
  /\ cp.PipeReadEnds[KWSYSPE_PIPE_STDOUT] < 0
  /\ cp.PipesLeft = KWSYSPE_PIPE_COUNT - 1
  /\ pend = NoPend

====
